---- MODULE Spec2Model ----
(***************************************************************************)
(* LOGC-Stats: the OCR text parser (parseOCRToTable) and the hunt-record   *)
(* extraction of the analytics dashboard, as state machines.               *)
(*                                                                         *)
(* A JavaScript string is a sequence of one-character strings, so that     *)
(* trim, toLowerCase, includes, split and the regular expressions of the   *)
(* source are computed character by character.                             *)
(***************************************************************************)
EXTENDS Integers, Sequences, FiniteSets, TLC

(***************************************************************************)
(* Characters and strings                                                  *)
(***************************************************************************)
UpperChars ==
    <<"A","B","C","D","E","F","G","H","I","J","K","L","M",
      "N","O","P","Q","R","S","T","U","V","W","X","Y","Z">>

LowerChars ==
    <<"a","b","c","d","e","f","g","h","i","j","k","l","m",
      "n","o","p","q","r","s","t","u","v","w","x","y","z">>

DigitChars ==
    <<"0","1","2","3","4","5","6","7","8","9">>

Range(f) ==
    {f[k] : k \in DOMAIN f}

Uppers == Range(UpperChars)

Lowers == Range(LowerChars)

Digits == Range(DigitChars)

Letters == Uppers \cup Lowers

\* \s of a JavaScript regular expression and the characters trim() removes
\* (restricted to the ones the inputs of this model contain)
WS == {" ", "\t", "\n", "\r"}

Min(S) ==
    CHOOSE x \in S : \A y \in S : x <= y

Max(S) ==
    CHOOSE x \in S : \A y \in S : x >= y

LowerChar(c) ==
    IF c \in Uppers
    THEN LowerChars[CHOOSE k \in 1..26 : UpperChars[k] = c]
    ELSE c

\* String.prototype.toLowerCase
toLowerCase(s) ==
    [k \in 1..Len(s) |-> LowerChar(s[k])]

\* String.prototype.trim
trim(s) ==
    LET keep == {k \in 1..Len(s) : s[k] \notin WS}
    IN  IF keep = {} THEN <<>> ELSE SubSeq(s, Min(keep), Max(keep))

\* String.prototype.includes
includes(s, sub) ==
    \E k \in 1..(Len(s) - Len(sub) + 1) : SubSeq(s, k, k + Len(sub) - 1) = sub

\* s.slice(a - 1, b): SubSeq cut to the length of s
Slice(s, a, b) ==
    SubSeq(s, a, IF b > Len(s) THEN Len(s) ELSE b)

\* String.prototype.startsWith
startsWith(s, sub) ==
    Len(s) >= Len(sub) /\ SubSeq(s, 1, Len(sub)) = sub

\* the last index of the longest run of characters of class S that starts at
\* index k of s; k - 1 when s[k] is not in S
RunEnd(s, k, S) ==
    LET bad == {j \in k..Len(s) : s[j] \notin S}
    IN  IF bad = {} THEN Len(s) ELSE Min(bad) - 1

\* String.prototype.split with a one-character separator
RECURSIVE splitChar(_, _)
splitChar(s, c) ==
    LET at == {k \in 1..Len(s) : s[k] = c}
    IN  IF at = {} THEN <<s>>
        ELSE <<SubSeq(s, 1, Min(at) - 1)>>
                 \o splitChar(SubSeq(s, Min(at) + 1, Len(s)), c)

\* String.prototype.split(/\s{2,}/): the separators are the maximal runs of
\* two or more whitespace characters
RECURSIVE splitSpaces(_)
splitSpaces(s) ==
    LET at == {k \in 1..(Len(s) - 1) : s[k] \in WS /\ s[k + 1] \in WS}
    IN  IF at = {} THEN <<s>>
        ELSE <<SubSeq(s, 1, Min(at) - 1)>>
                 \o splitSpaces(SubSeq(s, RunEnd(s, Min(at), WS) + 1, Len(s)))

\* the number of occurrences of character c in s: (s.match(/c/g) || []).length
CountChar(s, c) ==
    Cardinality({k \in 1..Len(s) : s[k] = c})

\* the decimal digits of a natural number
RECURSIVE NatToStr(_)
NatToStr(n) ==
    IF n < 10 THEN <<DigitChars[n + 1]>>
    ELSE NatToStr(n \div 10) \o <<DigitChars[(n % 10) + 1]>>

\* Number.prototype.toString of an integer
IntToStr(n) ==
    IF n < 0 THEN <<"-">> \o NatToStr(0 - n) ELSE NatToStr(n)

DigitVal(c) ==
    (CHOOSE k \in 1..10 : DigitChars[k] = c) - 1

\* the value of a non-empty string of decimal digits
RECURSIVE DigitsVal(_)
DigitsVal(s) ==
    IF s = <<>> THEN 0
    ELSE DigitsVal(SubSeq(s, 1, Len(s) - 1)) * 10 + DigitVal(s[Len(s)])

(***************************************************************************)
(* JavaScript values. A value is a tagged record; an object is the         *)
(* sequence of its own properties in enumeration order.                    *)
(***************************************************************************)
JNull == [t |-> "null"]

JUndef == [t |-> "undefined"]

JBool(b) == [t |-> "bool", b |-> b]

JNum(n) == [t |-> "num", n |-> n]

JStr(s) == [t |-> "str", s |-> s]

JArr(a) == [t |-> "arr", a |-> a]

JObj(o) == [t |-> "obj", o |-> o]

EmptyObj == JObj(<<>>)

\* a canonical array index ("0", "7", "12"): such keys enumerate first, in
\* ascending numeric order, before the string keys in insertion order
IsIndexKey(k) ==
    /\ Len(k) >= 1
    /\ \A j \in 1..Len(k) : k[j] \in Digits
    /\ (Len(k) > 1 => k[1] # "0")

HasKey(o, k) ==
    \E j \in 1..Len(o) : o[j].k = k

\* o[k], undefined when o has no own property k
Get(o, k) ==
    IF HasKey(o, k)
    THEN o[CHOOSE j \in 1..Len(o) : o[j].k = k].v
    ELSE JUndef

\* o[k] = v
Put(o, k, v) ==
    IF HasKey(o, k)
    THEN [j \in 1..Len(o) |-> IF o[j].k = k THEN [k |-> k, v |-> v] ELSE o[j]]
    ELSE IF IsIndexKey(k)
    THEN LET before == {j \in 1..Len(o) :
                           IsIndexKey(o[j].k) /\ DigitsVal(o[j].k) < DigitsVal(k)}
             n == Cardinality(before)
         IN  SubSeq(o, 1, n) \o <<[k |-> k, v |-> v]>> \o SubSeq(o, n + 1, Len(o))
    ELSE Append(o, [k |-> k, v |-> v])

\* Object.keys, Object.values
Keys(o) ==
    [j \in 1..Len(o) |-> o[j].k]

Values(o) ==
    [j \in 1..Len(o) |-> o[j].v]

\* ToBoolean
Truthy(v) ==
    CASE v.t = "null" -> FALSE
      [] v.t = "undefined" -> FALSE
      [] v.t = "bool" -> v.b
      [] v.t = "num" -> v.n # 0
      [] v.t = "str" -> v.s # <<>>
      [] OTHER -> TRUE

\* a || b
Or(a, b) ==
    IF Truthy(a) THEN a ELSE b

\* a ?? b
Coalesce(a, b) ==
    IF a.t \in {"null", "undefined"} THEN b ELSE a

\* Array.prototype.join(",") as Array.prototype.toString applies it
RECURSIVE JoinComma(_)
JoinComma(parts) ==
    IF parts = <<>> THEN <<>>
    ELSE IF Len(parts) = 1 THEN parts[1]
    ELSE parts[1] \o <<",">> \o JoinComma(Tail(parts))

\* String(v), v.toString()
RECURSIVE ToStr(_)
ToStr(v) ==
    CASE v.t = "null" -> <<"n","u","l","l">>
      [] v.t = "undefined" -> <<"u","n","d","e","f","i","n","e","d">>
      [] v.t = "bool" -> (IF v.b THEN <<"t","r","u","e">> ELSE <<"f","a","l","s","e">>)
      [] v.t = "num" -> IntToStr(v.n)
      [] v.t = "str" -> v.s
      [] v.t = "arr" ->
            JoinComma([j \in 1..Len(v.a) |->
                          IF v.a[j].t \in {"null", "undefined"} THEN <<>>
                          ELSE ToStr(v.a[j])])
      [] OTHER -> <<"[","o","b","j","e","c","t"," ","O","b","j","e","c","t","]">>

(***************************************************************************)
(* JSON.parse and JSON.stringify, over characters. Numbers are integers    *)
(* (the inputs of this model hold no fraction or exponent) and the string  *)
(* escapes are \" \\ \/ \n \t \r.                                           *)
(***************************************************************************)
JsonWS == {" ", "\t", "\n", "\r"}

JsonFail == [ok |-> FALSE, v |-> JNull, i |-> 0]

JsonOk(v, i) == [ok |-> TRUE, v |-> v, i |-> i]

skipWs(s, i) ==
    RunEnd(s, i, JsonWS) + 1

CharAt(s, i) ==
    IF i >= 1 /\ i <= Len(s) THEN s[i] ELSE ""

Unescape(c) ==
    CASE c = "n" -> "\n"
      [] c = "t" -> "\t"
      [] c = "r" -> "\r"
      [] OTHER -> c

\* the characters of a string literal, from index i (after the opening quote)
RECURSIVE parseChars(_, _, _)
parseChars(s, i, acc) ==
    IF i > Len(s) THEN JsonFail
    ELSE IF s[i] = "\"" THEN JsonOk(JStr(acc), i + 1)
    ELSE IF s[i] = "\\"
    THEN IF CharAt(s, i + 1) \in {"\"", "\\", "/", "n", "t", "r"}
         THEN parseChars(s, i + 2, Append(acc, Unescape(s[i + 1])))
         ELSE JsonFail
    ELSE IF s[i] \in {"\n", "\t", "\r"} THEN JsonFail
    ELSE parseChars(s, i + 1, Append(acc, s[i]))

\* an integer literal at index i: -?(0|[1-9][0-9]*)
parseNumber(s, i) ==
    LET neg == CharAt(s, i) = "-"
        d == IF neg THEN i + 1 ELSE i
        e == IF CharAt(s, d) = "0" THEN d ELSE RunEnd(s, d, Digits)
    IN  IF e < d THEN JsonFail
        ELSE JsonOk(JNum(IF neg THEN 0 - DigitsVal(SubSeq(s, d, e))
                         ELSE DigitsVal(SubSeq(s, d, e))), e + 1)

RECURSIVE parseValue(_, _)
RECURSIVE parseElements(_, _, _)
RECURSIVE parseMembers(_, _, _)
parseValue(s, i0) ==
    LET i == skipWs(s, i0)
        c == CharAt(s, i)
    IN  CASE c = "{" ->
                (IF CharAt(s, skipWs(s, i + 1)) = "}"
                 THEN JsonOk(EmptyObj, skipWs(s, i + 1) + 1)
                 ELSE parseMembers(s, i + 1, <<>>))
          [] c = "[" ->
                (IF CharAt(s, skipWs(s, i + 1)) = "]"
                 THEN JsonOk(JArr(<<>>), skipWs(s, i + 1) + 1)
                 ELSE parseElements(s, i + 1, <<>>))
          [] c = "\"" -> parseChars(s, i + 1, <<>>)
          [] c = "-" \/ c \in Digits -> parseNumber(s, i)
          [] c = "n" /\ Slice(s, i, i + 3) = <<"n","u","l","l">> -> JsonOk(JNull, i + 4)
          [] c = "t" /\ Slice(s, i, i + 3) = <<"t","r","u","e">> -> JsonOk(JBool(TRUE), i + 4)
          [] c = "f" /\ Slice(s, i, i + 4) = <<"f","a","l","s","e">> -> JsonOk(JBool(FALSE), i + 5)
          [] OTHER -> JsonFail

parseElements(s, i, acc) ==
    LET r == parseValue(s, i)
        k == skipWs(s, r.i)
    IN  IF ~r.ok THEN JsonFail
        ELSE IF CharAt(s, k) = "," THEN parseElements(s, k + 1, Append(acc, r.v))
        ELSE IF CharAt(s, k) = "]" THEN JsonOk(JArr(Append(acc, r.v)), k + 1)
        ELSE JsonFail

parseMembers(s, i, acc) ==
    LET q == skipWs(s, i)
        key == IF CharAt(s, q) = "\"" THEN parseChars(s, q + 1, <<>>) ELSE JsonFail
        c == skipWs(s, key.i)
        r == IF key.ok /\ CharAt(s, c) = ":" THEN parseValue(s, c + 1) ELSE JsonFail
        k == skipWs(s, r.i)
    IN  IF ~r.ok THEN JsonFail
        ELSE IF CharAt(s, k) = "," THEN parseMembers(s, k + 1, Put(acc, key.v.s, r.v))
        ELSE IF CharAt(s, k) = "}" THEN JsonOk(JObj(Put(acc, key.v.s, r.v)), k + 1)
        ELSE JsonFail

\* JSON.parse: ok is FALSE where JSON.parse throws a SyntaxError
JSONparse(s) ==
    LET r == parseValue(s, 1)
    IN  IF r.ok /\ skipWs(s, r.i) = Len(s) + 1 THEN r ELSE JsonFail

RECURSIVE quoteChars(_)
quoteChars(s) ==
    IF s = <<>> THEN <<>>
    ELSE (CASE Head(s) = "\"" -> <<"\\", "\"">>
            [] Head(s) = "\\" -> <<"\\", "\\">>
            [] Head(s) = "\n" -> <<"\\", "n">>
            [] Head(s) = "\t" -> <<"\\", "t">>
            [] Head(s) = "\r" -> <<"\\", "r">>
            [] OTHER -> <<Head(s)>>) \o quoteChars(Tail(s))

quote(s) ==
    <<"\"">> \o quoteChars(s) \o <<"\"">>

\* JSON.stringify
RECURSIVE JSONstringify(_)
JSONstringify(v) ==
    CASE v.t = "null" -> <<"n","u","l","l">>
      [] v.t = "undefined" -> <<"n","u","l","l">>
      [] v.t = "bool" -> (IF v.b THEN <<"t","r","u","e">> ELSE <<"f","a","l","s","e">>)
      [] v.t = "num" -> IntToStr(v.n)
      [] v.t = "str" -> quote(v.s)
      [] v.t = "arr" ->
            <<"[">> \o JoinComma([j \in 1..Len(v.a) |-> JSONstringify(v.a[j])])
                    \o <<"]">>
      [] OTHER ->
            <<"{">> \o JoinComma([j \in 1..Len(v.o) |->
                          quote(v.o[j].k) \o <<":">> \o JSONstringify(v.o[j].v)])
                    \o <<"}">>

(***************************************************************************)
(* State                                                                   *)
(***************************************************************************)
\* parseOCRToTable: the argument, the position in the function, the locals
\* of the heuristic scan and the returned value. jsonSource is the value whose
\* JSON encoding the argument is (undefined for any other text).
VARIABLES ocrText, jsonSource, pc, lines, i, foundDate, foundRecordType,
          members, guide, otherData, keyValuePairs, currentSection, result,
          strategy

\* App: the sheets and the view shown. AnalyticsDashboard ('club-wide') and
\* IndividualMemberStats ('individual'): the position in sheets.forEach /
\* rows.forEach and the accumulators of each. AnalyticsDashboard: the
\* condition selected and the values of analytics and filteredAnalytics.
VARIABLES sheets, viewMode, apc, sheetIdx, rowIdx,
          allRecords, memberStats, blindStats, blindMallardStats, speciesStats,
          dateStats, guideStats, guideMallardStats, memberBlindStats,
          memberSpeciesStats, totalMallardsCount,
          memberRecords, allMembers,
          selectedCondition, analytics, filteredAnalytics, membersArray

parserVars ==
    <<ocrText, jsonSource, pc, lines, i, foundDate, foundRecordType, members,
      guide, otherData, keyValuePairs, currentSection, result, strategy>>

dashVars ==
    <<allRecords, memberStats, blindStats, blindMallardStats, speciesStats,
      dateStats, guideStats, guideMallardStats, memberBlindStats,
      memberSpeciesStats, totalMallardsCount>>

memberVars ==
    <<memberRecords, allMembers>>

shownVars ==
    <<selectedCondition, analytics, filteredAnalytics, membersArray>>

\* App: the state of the component (useState), and the position of its
\* asynchronous work: init (loadExcelJson, then loadDefaultCSV over csvPaths),
\* the FileReader of handleFileUpload, and the Papa.parse call of parseCSV.
\* excelLoaded, csvStarted, parsedTexts and lastLoad record what happened:
\* the value loadExcelJson returned, whether loadDefaultCSV was called, the
\* arguments parseOCRToTable was given, and how the last parseCSV ended.
VARIABLES data, loading, error, tablesByDate, selectedDate, excelSheets,
          selectedSheet, initPc, csvPath, reader, papa, uploads,
          excelLoaded, csvStarted, parsedTexts, lastLoad

analyticsVars ==
    <<sheets, viewMode, apc, sheetIdx, rowIdx, dashVars, memberVars, shownVars>>

appStateVars ==
    <<data, loading, error, tablesByDate, selectedDate, excelSheets, selectedSheet>>

loadVars ==
    <<appStateVars, initPc, csvPath, reader, papa, uploads, excelLoaded,
      csvStarted, parsedTexts, lastLoad>>

vars ==
    <<parserVars, analyticsVars, loadVars>>

(***************************************************************************)
(* parseOCRToTable: the patterns                                           *)
(***************************************************************************)
NoMatch == [ok |-> FALSE, g1 |-> <<>>, g2 |-> <<>>]

\* /(?:DATE|Date|date)[:\s]+([A-Za-z]+\s+\d+)/i tried at index p
dateMatchAt(line, p) ==
    LET q == p + 4
        r == RunEnd(line, q, {":"} \cup WS)
        a == RunEnd(line, r + 1, Letters)
        w == RunEnd(line, a + 1, WS)
        d == RunEnd(line, w + 1, Digits)
    IN  IF /\ p + 3 <= Len(line)
           /\ toLowerCase(SubSeq(line, p, p + 3)) = <<"d","a","t","e">>
           /\ r >= q
           /\ a >= r + 1
           /\ w >= a + 1
           /\ d >= w + 1
        THEN [ok |-> TRUE, g1 |-> SubSeq(line, r + 1, d), g2 |-> <<>>]
        ELSE NoMatch

\* line.match(datePattern): the leftmost match
datePattern(line) ==
    LET at == {p \in 1..Len(line) : dateMatchAt(line, p).ok}
    IN  IF at = {} THEN NoMatch ELSE dateMatchAt(line, Min(at))

\* recordPattern.test(line): /(?:Record|record|Waterfowl|Matec|Hunting)/i
recordPattern(line) ==
    LET lower == toLowerCase(line)
    IN  \/ includes(lower, <<"r","e","c","o","r","d">>)
        \/ includes(lower, <<"w","a","t","e","r","f","o","w","l">>)
        \/ includes(lower, <<"m","a","t","e","c">>)
        \/ includes(lower, <<"h","u","n","t","i","n","g">>)

\* line.match(numberedLinePattern): /^(\d+)\s+(.+)$/
numberedLinePattern(line) ==
    LET d == RunEnd(line, 1, Digits)
        w == RunEnd(line, d + 1, WS)
    IN  IF d < 1 \/ w < d + 1 THEN NoMatch
        ELSE IF w < Len(line)
        THEN [ok |-> TRUE, g1 |-> SubSeq(line, 1, d),
              g2 |-> SubSeq(line, w + 1, Len(line))]
        ELSE IF w - d >= 2
        THEN [ok |-> TRUE, g1 |-> SubSeq(line, 1, d), g2 |-> <<line[Len(line)]>>]
        ELSE NoMatch

\* line.match(keyValuePattern): /^([^:]+):\s*(.+)$/
keyValuePattern(line) ==
    LET colons == {k \in 1..Len(line) : line[k] = ":"}
        c == Min(colons)
        w == RunEnd(line, c + 1, WS)
    IN  IF colons = {} THEN NoMatch
        ELSE IF c < 2 \/ c = Len(line) THEN NoMatch
        ELSE [ok |-> TRUE, g1 |-> SubSeq(line, 1, c - 1),
              g2 |-> IF w < Len(line) THEN SubSeq(line, w + 1, Len(line))
                     ELSE <<line[Len(line)]>>]

\* namePattern.test(line): /^[A-Z][a-z]+\s+[A-Z][a-z]+/
namePattern(line) ==
    LET a == RunEnd(line, 2, Lowers)
        w == RunEnd(line, a + 1, WS)
    IN  /\ Len(line) >= 1
        /\ line[1] \in Uppers
        /\ a >= 2
        /\ w >= a + 1
        /\ CharAt(line, w + 1) \in Uppers
        /\ CharAt(line, w + 2) \in Lowers

\* line.match(/^\d/)
startsWithDigit(line) ==
    CharAt(line, 1) \in Digits

\* line.match(/^\d+$/)
allDigits(line) ==
    Len(line) >= 1 /\ \A k \in 1..Len(line) : line[k] \in Digits

\* ocrText.split('\n').map(line => line.trim()).filter(line => line.length > 0)
NonEmpty(s) ==
    Len(s) > 0

splitLines(text) ==
    LET parts == splitChar(text, "\n")
    IN  SelectSeq([k \in 1..Len(parts) |-> trim(parts[k])], NonEmpty)

(***************************************************************************)
(* parseOCRToTable: the branch of the scan loop that handles a line, in    *)
(* the order of the loop body                                              *)
(***************************************************************************)
\* the variant that tests the bare name before the key-value pattern
LineKindNameFirst(line, section) ==
    LET lower == toLowerCase(line)
    IN  IF datePattern(line).ok THEN "date"
        ELSE IF recordPattern(line) THEN "record"
        ELSE IF includes(lower, <<"m","e","m","b","e","r">>) THEN "members"
        ELSE IF includes(lower, <<"g","u","i","d","e">>) THEN "guide"
        ELSE IF includes(lower, <<"w","e","a","t","h","e","r">>) \/ includes(lower, <<"c","o","n","d","i","t","i","o","n">>)
        THEN "weather"
        ELSE IF includes(lower, <<"d","a","y"," ","t","o","t","a","l">>) \/ includes(lower, <<"t","o","t","a","l">>)
        THEN "totals"
        ELSE IF numberedLinePattern(line).ok THEN "numbered"
        ELSE IF /\ section \in {"members", "guide"}
                /\ namePattern(line)
                /\ ~startsWithDigit(line)
        THEN "name"
        ELSE IF keyValuePattern(line).ok THEN "keyValue"
        ELSE IF Len(line) > 0 /\ ~allDigits(line) THEN "other"
        ELSE "none"

LineKind(line, section) ==
    LET lower == toLowerCase(line)
    IN  IF datePattern(line).ok THEN "date"
        ELSE IF recordPattern(line) THEN "record"
        ELSE IF includes(lower, <<"m","e","m","b","e","r">>) THEN "members"
        ELSE IF includes(lower, <<"g","u","i","d","e">>) THEN "guide"
        ELSE IF includes(lower, <<"w","e","a","t","h","e","r">>) \/ includes(lower, <<"c","o","n","d","i","t","i","o","n">>)
        THEN "weather"
        ELSE IF includes(lower, <<"d","a","y"," ","t","o","t","a","l">>) \/ includes(lower, <<"t","o","t","a","l">>)
        THEN "totals"
        ELSE IF numberedLinePattern(line).ok THEN "numbered"
        ELSE IF keyValuePattern(line).ok THEN "keyValue"
        ELSE IF /\ section \in {"members", "guide"}
                /\ namePattern(line)
                /\ ~startsWithDigit(line)
        THEN "name"
        ELSE IF Len(line) > 0 /\ ~allDigits(line) THEN "other"
        ELSE "none"

\* the variant that puts the rest of the line under Number
NumberNameSwapped(number, name) ==
    JObj(Put(Put(<<>>, <<"N","u","m","b","e","r">>, JStr(name)), <<"N","a","m","e">>, JStr(number)))

\* { Number: number, Name: name }
NumberName(number, name) ==
    JObj(Put(Put(<<>>, <<"N","u","m","b","e","r">>, JStr(number)), <<"N","a","m","e">>, JStr(name)))

\* { Key: key.trim(), Value: value.trim() }
KeyValue(key, value) ==
    JObj(Put(Put(<<>>, <<"K","e","y">>, JStr(trim(key))), <<"V","a","l","u","e">>, JStr(trim(value))))

\* { date: foundDate, recordType: foundRecordType }
Metadata(date, recordType) ==
    JObj(Put(Put(<<>>, <<"d","a","t","e">>, date), <<"r","e","c","o","r","d","T","y","p","e">>, recordType))

\* { date: foundDate, recordType: foundRecordType, section: ... }
MetadataSection(date, recordType, section) ==
    JObj(Put(Metadata(date, recordType).o, <<"s","e","c","t","i","o","n">>, JStr(section)))

StrArr(ss) ==
    [k \in 1..Len(ss) |-> JStr(ss[k])]

(***************************************************************************)
(* parseOCRToTable: the JSON fast path                                     *)
(***************************************************************************)
\* headers.forEach((h, idx) => { obj[h] = row[idx] ?? '' })
RECURSIVE alignRow(_, _, _, _)
alignRow(headers, row, idx, obj) ==
    IF idx > Len(headers) THEN obj
    ELSE alignRow(headers, row, idx + 1,
                  Put(obj, ToStr(headers[idx]),
                      Coalesce(IF idx <= Len(row) THEN row[idx] ELSE JUndef,
                               JStr(<<>>))))

\* the variant that fills every falsy position of an array row
RECURSIVE alignRowOr(_, _, _, _)
alignRowOr(headers, row, idx, obj) ==
    IF idx > Len(headers) THEN obj
    ELSE alignRowOr(headers, row, idx + 1,
                    Put(obj, ToStr(headers[idx]),
                        Or(IF idx <= Len(row) THEN row[idx] ELSE JUndef,
                           JStr(<<>>))))

jsonRowOr(headers, row) ==
    IF row.t = "arr" THEN JObj(alignRowOr(headers, row.a, 1, <<>>))
    ELSE IF Truthy(row) /\ row.t = "obj" THEN row
    ELSE JObj(Put(<<>>, <<"V","a","l","u","e">>, JStr(ToStr(row))))

\* the callback of parsed.rows.map
jsonRow(headers, row) ==
    IF row.t = "arr" THEN JObj(alignRow(headers, row.a, 1, <<>>))
    ELSE IF Truthy(row) /\ row.t = "obj" THEN row
    ELSE JObj(Put(<<>>, <<"V","a","l","u","e">>, JStr(ToStr(row))))

\* the outcome of the fast path: ok is FALSE when the text is not taken as JSON
\* (it does not start with '{', JSON.parse throws, or headers/rows are no arrays)
jsonFastPath(text) ==
    LET trimmed == trim(text)
        parsed == JSONparse(trimmed)
        hs == Get(parsed.v.o, <<"h","e","a","d","e","r","s">>)
        rs == Get(parsed.v.o, <<"r","o","w","s">>)
    IN  IF /\ startsWith(trimmed, <<"{">>)
           /\ parsed.ok
           /\ hs.t = "arr"
           /\ rs.t = "arr"
        THEN [ok |-> TRUE,
              table |-> [headers |-> hs.a,
                         rows |-> [k \in 1..Len(rs.a) |-> jsonRow(hs.a, rs.a[k])],
                         metadata |-> Or(Get(parsed.v.o, <<"m","e","t","a","d","a","t","a">>), EmptyObj)]]
        ELSE [ok |-> FALSE, table |-> [headers |-> <<>>, rows |-> <<>>]]

(***************************************************************************)
(* parseOCRToTable: the result of the scan                                 *)
(***************************************************************************)
\* the variant that prefers the guide rows to the members rows
buildTablesGuideFirst(ms, gs, kvs, date, recordType) ==
    IF Len(gs) > 0
    THEN [ok |-> TRUE, strategy |-> "guide",
          table |-> [headers |-> StrArr(<<<<"N","u","m","b","e","r">>, <<"N","a","m","e">>>>), rows |-> gs,
                     metadata |-> MetadataSection(date, recordType, <<"G","u","i","d","e">>)]]
    ELSE IF Len(ms) > 0
    THEN [ok |-> TRUE, strategy |-> "members",
          table |-> [headers |-> StrArr(<<<<"N","u","m","b","e","r">>, <<"N","a","m","e">>>>), rows |-> ms,
                     metadata |-> MetadataSection(date, recordType, <<"M","e","m","b","e","r","s">>)]]
    ELSE IF Len(kvs) > 0
    THEN [ok |-> TRUE, strategy |-> "keyValue",
          table |-> [headers |-> StrArr(<<<<"K","e","y">>, <<"V","a","l","u","e">>>>), rows |-> kvs,
                     metadata |-> Metadata(date, recordType)]]
    ELSE [ok |-> FALSE, strategy |-> "none",
          table |-> [headers |-> <<>>, rows |-> <<>>]]

\* "Build tables based on what we found"
buildTables(ms, gs, kvs, date, recordType) ==
    IF Len(ms) > 0
    THEN [ok |-> TRUE, strategy |-> "members",
          table |-> [headers |-> StrArr(<<<<"N","u","m","b","e","r">>, <<"N","a","m","e">>>>), rows |-> ms,
                     metadata |-> MetadataSection(date, recordType, <<"M","e","m","b","e","r","s">>)]]
    ELSE IF Len(gs) > 0
    THEN [ok |-> TRUE, strategy |-> "guide",
          table |-> [headers |-> StrArr(<<<<"N","u","m","b","e","r">>, <<"N","a","m","e">>>>), rows |-> gs,
                     metadata |-> MetadataSection(date, recordType, <<"G","u","i","d","e">>)]]
    ELSE IF Len(kvs) > 0
    THEN [ok |-> TRUE, strategy |-> "keyValue",
          table |-> [headers |-> StrArr(<<<<"K","e","y">>, <<"V","a","l","u","e">>>>), rows |-> kvs,
                     metadata |-> Metadata(date, recordType)]]
    ELSE [ok |-> FALSE, strategy |-> "none",
          table |-> [headers |-> <<>>, rows |-> <<>>]]

(***************************************************************************)
(* parseOCRToTable: the delimiter-based table                              *)
(***************************************************************************)
\* the variant that asks for three columns between the runs of spaces
isTableLineThreeParts(line) ==
    \/ CountChar(line, "|") >= 2
    \/ Len(splitSpaces(line)) >= 3

\* the callback of lines.filter
isTableLine(line) ==
    LET hasMultipleSeparators == CountChar(line, "|") >= 2
        hasMultipleSpaces == Len(splitSpaces(line)) >= 2
    IN  hasMultipleSeparators \/ hasMultipleSpaces

tableLinesOf(ls) ==
    SelectSeq(ls, isTableLine)

\* the callback of tableLines.map
parsedRow(line) ==
    LET cols == IF includes(line, <<"|">>) THEN splitChar(line, "|")
                ELSE splitSpaces(line)
    IN  SelectSeq([k \in 1..Len(cols) |-> trim(cols[k])], NonEmpty)

\* headers.forEach((header, idx) => { obj[header] = row[idx] || '' })
RECURSIVE zipRow(_, _, _, _)
zipRow(headers, row, idx, obj) ==
    IF idx > Len(headers) THEN obj
    ELSE zipRow(headers, row, idx + 1,
                Put(obj, headers[idx],
                    JStr(IF idx <= Len(row) THEN row[idx] ELSE <<>>)))

\* Object.values(row).some(v => v && v.trim().length > 0)
someValue(row) ==
    \E k \in 1..Len(row.o) : Len(row.o[k].v.s) > 0 /\ Len(trim(row.o[k].v.s)) > 0

detectTable(ls, date, recordType) ==
    LET tableLines == tableLinesOf(ls)
        parsedRows == [k \in 1..Len(tableLines) |-> parsedRow(tableLines[k])]
        maxCols == Max({Len(parsedRows[k]) : k \in 1..Len(parsedRows)})
        headerRowIndex == Min({k \in 1..Len(parsedRows) : Len(parsedRows[k]) = maxCols})
        headers == parsedRows[headerRowIndex]
        rows == [k \in 1..(Len(parsedRows) - headerRowIndex) |->
                    JObj(zipRow(headers, parsedRows[headerRowIndex + k], 1, <<>>))]
    IN  IF Len(tableLines) > 0 /\ Len(headers) > 1
        THEN [ok |-> TRUE,
              table |-> [headers |-> StrArr(headers),
                         rows |-> SelectSeq(rows, someValue),
                         metadata |-> Metadata(date, recordType)]]
        ELSE [ok |-> FALSE, table |-> [headers |-> <<>>, rows |-> <<>>]]

(***************************************************************************)
(* parseOCRToTable: the fallback structured view                           *)
(***************************************************************************)
\* `Field${Object.keys(currentRow).length + 1}`
FieldKey(n) ==
    <<"F","i","e","l","d">> \o NatToStr(n)

\* the loop over the lines: structuredRows and currentRow after the lines from k
RECURSIVE structuredFrom(_, _, _, _)
structuredFrom(ls, k, structuredRows, currentRow) ==
    IF k > Len(ls) THEN [structuredRows |-> structuredRows, currentRow |-> currentRow]
    ELSE LET line == ls[k]
             kvMatch == keyValuePattern(line)
             numMatch == numberedLinePattern(line)
             flushed == IF Len(currentRow) > 0
                        THEN Append(structuredRows, JObj(currentRow))
                        ELSE structuredRows
         IN  IF kvMatch.ok
             THEN structuredFrom(ls, k + 1, flushed,
                                 Put(<<>>, trim(kvMatch.g1), JStr(trim(kvMatch.g2))))
             ELSE IF numMatch.ok
             THEN structuredFrom(ls, k + 1, flushed,
                                 NumberName(numMatch.g1, numMatch.g2).o)
             ELSE structuredFrom(ls, k + 1, structuredRows,
                                 Put(currentRow, FieldKey(Len(currentRow) + 1),
                                     JStr(line)))

\* the variant without the push of the last currentRow after the loop
structuredRowsUnflushed(ls) ==
    structuredFrom(ls, 1, <<>>, <<>>).structuredRows

structuredRowsOf(ls) ==
    LET r == structuredFrom(ls, 1, <<>>, <<>>)
    IN  IF Len(r.currentRow) > 0
        THEN Append(r.structuredRows, JObj(r.currentRow))
        ELSE r.structuredRows

\* structuredRows.forEach(row => Object.keys(row).forEach(k => allKeys.add(k)))
RECURSIVE allKeysOf(_, _)
allKeysOf(rows, acc) ==
    IF rows = <<>> THEN acc
    ELSE LET ks == Keys(Head(rows).o)
             new == SelectSeq(ks, LAMBDA k : \A j \in 1..Len(acc) : acc[j] # k)
         IN  allKeysOf(Tail(rows), acc \o new)

(***************************************************************************)
(* parseOCRToTable: the steps                                              *)
(***************************************************************************)
\* if (!ocrText) return { headers: [], rows: [] }
ReturnEmpty ==
    /\ pc = "start"
    /\ ocrText = <<>>
    /\ result' = [headers |-> <<>>, rows |-> <<>>]
    /\ strategy' = "empty"
    /\ pc' = "done"
    /\ UNCHANGED <<ocrText, jsonSource, lines, i, foundDate, foundRecordType, members, guide,
                   otherData, keyValuePairs, currentSection>>
    /\ UNCHANGED <<analyticsVars, loadVars>>

\* the text is JSON with array headers and rows: it is returned as the table
JsonFastPath ==
    /\ pc = "start"
    /\ ocrText # <<>>
    /\ jsonFastPath(ocrText).ok
    /\ result' = jsonFastPath(ocrText).table
    /\ strategy' = "json"
    /\ pc' = "done"
    /\ UNCHANGED <<ocrText, jsonSource, lines, i, foundDate, foundRecordType, members, guide,
                   otherData, keyValuePairs, currentSection>>
    /\ UNCHANGED <<analyticsVars, loadVars>>

\* otherwise the text is split into its non-empty trimmed lines
SplitLines ==
    /\ pc = "start"
    /\ ocrText # <<>>
    /\ ~jsonFastPath(ocrText).ok
    /\ lines' = splitLines(ocrText)
    /\ i' = 1
    /\ pc' = "scan"
    /\ UNCHANGED <<ocrText, jsonSource, foundDate, foundRecordType, members, guide, otherData,
                   keyValuePairs, currentSection, result, strategy>>
    /\ UNCHANGED <<analyticsVars, loadVars>>

\* one iteration of "Parse the text into structured sections"
ScanLine ==
    /\ pc = "scan"
    /\ i <= Len(lines)
    /\ LET line == lines[i]
           kind == LineKind(line, currentSection)
           numberedMatch == numberedLinePattern(line)
           kvMatch == keyValuePattern(line)
       IN  /\ foundDate' = IF kind = "date" THEN JStr(datePattern(line).g1)
                           ELSE foundDate
           /\ foundRecordType' = IF kind = "record" THEN JStr(line)
                                 ELSE foundRecordType
           /\ currentSection' = IF kind \in {"members", "guide", "weather", "totals"}
                                THEN kind ELSE currentSection
           /\ members' =
                 IF kind = "numbered" /\ currentSection # "guide"
                 THEN Append(members, NumberName(numberedMatch.g1, numberedMatch.g2))
                 ELSE IF kind = "name" /\ currentSection = "members"
                 THEN Append(members, NumberName(<<>>, line))
                 ELSE members
           /\ guide' =
                 IF kind = "numbered" /\ currentSection = "guide"
                 THEN Append(guide, NumberName(numberedMatch.g1, numberedMatch.g2))
                 ELSE IF kind = "name" /\ currentSection = "guide"
                 THEN Append(guide, NumberName(<<>>, line))
                 ELSE guide
           /\ keyValuePairs' = IF kind = "keyValue"
                               THEN Append(keyValuePairs, KeyValue(kvMatch.g1, kvMatch.g2))
                               ELSE keyValuePairs
           /\ otherData' = IF kind = "other" THEN Append(otherData, line)
                           ELSE otherData
    /\ i' = i + 1
    /\ UNCHANGED <<ocrText, jsonSource, pc, lines, result, strategy>>
    /\ UNCHANGED <<analyticsVars, loadVars>>

\* after the loop: the members, else the guide, else the key-value pairs
BuildTables ==
    /\ pc = "scan"
    /\ i > Len(lines)
    /\ LET r == buildTables(members, guide, keyValuePairs, foundDate, foundRecordType)
       IN  IF r.ok
           THEN /\ result' = r.table
                /\ strategy' = r.strategy
                /\ pc' = "done"
           ELSE /\ pc' = "table"
                /\ UNCHANGED <<result, strategy>>
    /\ UNCHANGED <<ocrText, jsonSource, lines, i, foundDate, foundRecordType, members, guide,
                   otherData, keyValuePairs, currentSection>>
    /\ UNCHANGED <<analyticsVars, loadVars>>

\* "Try to find tabular structure with multiple spaces or pipes"
DetectTable ==
    /\ pc = "table"
    /\ LET r == detectTable(lines, foundDate, foundRecordType)
       IN  IF r.ok
           THEN /\ result' = r.table
                /\ strategy' = "table"
                /\ pc' = "done"
           ELSE /\ pc' = "fallback"
                /\ UNCHANGED <<result, strategy>>
    /\ UNCHANGED <<ocrText, jsonSource, lines, i, foundDate, foundRecordType, members, guide,
                   otherData, keyValuePairs, currentSection>>
    /\ UNCHANGED <<analyticsVars, loadVars>>

\* "Fallback: create a structured view"
FallbackStructured ==
    /\ pc = "fallback"
    /\ LET structuredRows == structuredRowsOf(lines)
       IN  IF Len(structuredRows) > 0
           THEN /\ result' = [headers |-> StrArr(allKeysOf(structuredRows, <<>>)),
                              rows |-> structuredRows,
                              metadata |-> Metadata(foundDate, foundRecordType)]
                /\ strategy' = "structured"
                /\ pc' = "done"
           ELSE /\ pc' = "final"
                /\ UNCHANGED <<result, strategy>>
    /\ UNCHANGED <<ocrText, jsonSource, lines, i, foundDate, foundRecordType, members, guide,
                   otherData, keyValuePairs, currentSection>>
    /\ UNCHANGED <<analyticsVars, loadVars>>

\* "Final fallback: simple list"
FinalFallback ==
    /\ pc = "final"
    /\ result' = [headers |-> StrArr(<<<<"C","o","n","t","e","n","t">>>>),
                  rows |-> [k \in 1..Len(lines) |->
                               JObj(Put(<<>>, <<"C","o","n","t","e","n","t">>, JStr(lines[k])))],
                  metadata |-> Metadata(foundDate, foundRecordType)]
    /\ strategy' = "content"
    /\ pc' = "done"
    /\ UNCHANGED <<ocrText, jsonSource, lines, i, foundDate, foundRecordType, members, guide,
                   otherData, keyValuePairs, currentSection>>
    /\ UNCHANGED <<analyticsVars, loadVars>>

(***************************************************************************)
(* parseOCRToTable: the texts it is applied to                             *)
(***************************************************************************)
MaxLines == 3

MaxJsonRows == 2

\* the files a user uploads in a run of App
MaxUploads == 2

\* the lines the free texts are made of
LineCorpus ==
    { <<"D","A","T","E",":"," ","N","o","v","e","m","b","e","r"," ","1","6">>,
      <<"M","e","m","b","e","r","s">>,
      <<"G","u","i","d","e">>,
      <<"1"," ","J","o","h","n"," ","S","m","i","t","h">>,
      <<"J","o","h","n"," ","S","m","i","t","h",":"," ","5">>,
      <<"J","a","n","e"," ","D","o","e">>,
      <<"N","a","m","e"," "," ","C","o","u","n","t">>,
      <<"B","o","b"," "," ","7">>,
      <<"D","a","y"," ","T","o","t","a","l">> }

RECURSIVE joinLines(_)
joinLines(ls) ==
    IF ls = <<>> THEN <<>>
    ELSE IF Len(ls) = 1 THEN ls[1]
    ELSE ls[1] \o <<"\n">> \o joinLines(Tail(ls))

SeqsUpTo(S, n) ==
    UNION {[1..k -> S] : k \in 0..n}

FreeTexts ==
    {joinLines(ls) : ls \in SeqsUpTo(LineCorpus, MaxLines)}

ScenarioC ==
    <<"D","A","T","E",":"," ","N","o","v","e","m","b","e","r"," ","1","6","\n","M","e","m","b","e","r","s","\n","1"," ","J","o","h","n"," ","S","m","i","t","h","\n","2"," ","J","a","n","e"," ","D","o","e">>

\* blank texts and texts with pipes
OtherTexts ==
    { <<" "," ">>, <<" ","\n","\t","\n">>, <<"a","|","b","|","c">>, <<"a","|","b","|","c","\n","1","|","2","|","3","\n"," ","|"," ","|"," ">>, <<"x"," ","|"," ","y","\n","7">> }

\* texts with weather and totals sections, a numbered line that is a section
\* header, and a key: value line that is a record-type line
SectionTexts ==
    { <<"C","o","n","t","e","n","t",":"," ","H","u","n","t","i","n","g">>,
      <<"W","e","a","t","h","e","r","\n","2"," ","J","a","n","e"," ","D","o","e">>,
      <<"G","u","i","d","e","\n","C","o","n","d","i","t","i","o","n","s","\n","1"," ","J","o","h","n"," ","S","m","i","t","h">>,
      <<"G","u","i","d","e","\n","1"," ","J","o","h","n"," ","S","m","i","t","h","\n","D","a","y"," ","T","o","t","a","l","\n","2"," ","J","a","n","e"," ","D","o","e">>,
      <<"1"," ","G","u","i","d","e"," ","T","o","m","\n","2"," ","J","a","n","e"," ","D","o","e">> }

\* texts that start with '{' and are not a table in JSON
BraceTexts ==
    { <<"{","n","o","t"," ","j","s","o","n">>,
      <<"{","\"","h","e","a","d","e","r","s","\"",":","[","\"","A","\"","]",",","\"","r","o","w","s","\"",":","[">>,
      <<"{","\"","h","e","a","d","e","r","s","\"",":","\"","A","\"",",","\"","r","o","w","s","\"",":","[","]","}">>,
      <<"{","\"","r","o","w","s","\"",":","[","[","\"","x","\"","]","]","}">>,
      <<" ","{","\"","a","\"",":"," ","1","}","\n","2"," ","J","a","n","e"," ","D","o","e">> }

JsonHeaders ==
    { <<>>, <<JStr(<<"A">>), JStr(<<"B">>)>>, <<JStr(<<"B">>), JStr(<<"2">>), JStr(<<"A">>)>> }

JsonRowCorpus ==
    { JObj(Put(Put(<<>>, <<"A">>, JStr(<<"1">>)), <<"B">>, JStr(<<"2">>))),
      JObj(Put(Put(<<>>, <<"B">>, JNum(7)), <<"2">>, JNull)),
      EmptyObj,
      JArr(<<JStr(<<"x">>)>>),
      JArr(<<JNull, JNum(0), JStr(<<"z">>), JStr(<<"w">>)>>),
      JNum(5),
      JNull,
      JStr(<<"s">>) }

JsonMetadata ==
    { JUndef, JNull, JObj(Put(<<>>, <<"d","a","t","e">>, JStr(<<"N","o","v"," ","1">>))), JStr(<<"m">>) }

\* { headers, rows, metadata } with metadata left out when undefined
JsonDoc(hs, rs, md) ==
    JObj(LET o == Put(Put(<<>>, <<"h","e","a","d","e","r","s">>, JArr(hs)), <<"r","o","w","s">>, JArr(rs))
         IN  IF md = JUndef THEN o ELSE Put(o, <<"m","e","t","a","d","a","t","a">>, md))

JsonDocs ==
    {JsonDoc(hs, rs, md) : hs \in JsonHeaders,
                           rs \in SeqsUpTo(JsonRowCorpus, MaxJsonRows),
                           md \in JsonMetadata}

\* the state before parseOCRToTable is applied to a text
ParserIdle ==
    /\ ocrText = <<>>
    /\ jsonSource = JUndef
    /\ pc = "start"
    /\ lines = <<>>
    /\ i = 0
    /\ foundDate = JNull
    /\ foundRecordType = JNull
    /\ members = <<>>
    /\ guide = <<>>
    /\ otherData = <<>>
    /\ keyValuePairs = <<>>
    /\ currentSection = "none"
    /\ result = [headers |-> <<>>, rows |-> <<>>]
    /\ strategy = "none"

\* the state of App before any sheet is loaded
AnalyticsIdle ==
    /\ sheets = <<>>
    /\ viewMode = "table"
    /\ apc = "idle"
    /\ sheetIdx = 0
    /\ rowIdx = 0
    /\ allRecords = <<>>
    /\ memberStats = <<>>
    /\ blindStats = <<>>
    /\ blindMallardStats = <<>>
    /\ speciesStats = <<>>
    /\ dateStats = <<>>
    /\ guideStats = <<>>
    /\ guideMallardStats = <<>>
    /\ memberBlindStats = <<>>
    /\ memberSpeciesStats = <<>>
    /\ totalMallardsCount = 0
    /\ memberRecords = <<>>
    /\ allMembers = <<>>
    /\ selectedCondition = <<"a","l","l">>
    /\ analytics = [isNull |-> TRUE]
    /\ filteredAnalytics = [isNull |-> TRUE]
    /\ membersArray = <<>>

\* no file: the FileReader and Papa.parse at rest
NoFile ==
    [text |-> <<>>, rows |-> <<>>, errors |-> <<>>, fails |-> FALSE,
     unreadable |-> FALSE]

Idle ==
    [busy |-> FALSE, file |-> NoFile, caller |-> "none"]

\* the state of App with init over and nothing loaded
LoadIdle ==
    /\ data = <<>>
    /\ loading = FALSE
    /\ error = JNull
    /\ tablesByDate = <<>>
    /\ selectedDate = <<>>
    /\ excelSheets = <<>>
    /\ selectedSheet = <<>>
    /\ initPc = "done"
    /\ csvPath = 0
    /\ reader = Idle
    /\ papa = Idle
    /\ uploads = 0
    /\ excelLoaded = "no"
    /\ csvStarted = TRUE
    /\ parsedTexts = {}
    /\ lastLoad = "none"

ParserInit ==
    /\ \/ /\ ocrText \in FreeTexts \cup {ScenarioC} \cup OtherTexts \cup SectionTexts
                           \cup BraceTexts
          /\ jsonSource = JUndef
       \/ /\ jsonSource \in JsonDocs
          /\ ocrText = JSONstringify(jsonSource)
    /\ AnalyticsIdle
    /\ LoadIdle
    /\ pc = "start"
    /\ lines = <<>>
    /\ i = 0
    /\ foundDate = JNull
    /\ foundRecordType = JNull
    /\ members = <<>>
    /\ guide = <<>>
    /\ otherData = <<>>
    /\ keyValuePairs = <<>>
    /\ currentSection = "none"
    /\ result = [headers |-> <<>>, rows |-> <<>>]
    /\ strategy = "none"

ParserNext ==
    \/ ReturnEmpty
    \/ JsonFastPath
    \/ SplitLines
    \/ ScanLine
    \/ BuildTables
    \/ DetectTable
    \/ FallbackStructured
    \/ FinalFallback

(***************************************************************************)
(* Properties of parseOCRToTable                                           *)
(***************************************************************************)
\* the text has a character that is no whitespace: it has a non-blank line
NonBlank(text) ==
    \E k \in 1..Len(text) : text[k] \notin WS

\* C1: for every text with at least one non-blank line the returned table has
\* at least one row, whichever strategy returns (the JSON fast path and the
\* delimiter-based table with the header line as its only candidate included).
C1_NonBlankTextHasRows ==
    (pc = "done" /\ NonBlank(ocrText)) => Len(result.rows) >= 1

\* C2: for every input the returned value has the three fields headers, rows
\* and metadata, so that reading result.metadata.date does not fail.
C2_ResultHasAllFields ==
    pc = "done" => DOMAIN result = {"headers", "rows", "metadata"}

NumberNameHeaders ==
    <<JStr(<<"N","u","m","b","e","r">>), JStr(<<"N","a","m","e">>)>>

KeyValueHeaders ==
    <<JStr(<<"K","e","y">>), JStr(<<"V","a","l","u","e">>)>>

\* C3: after the scan the result is chosen by fixed priority without merging:
\* the members rows under [Number, Name] if there are any, else the guide rows
\* under [Number, Name], else the key-value pairs under [Key, Value]; the
\* later strategies run only when the three lists are empty; and the text of
\* Scenario C yields its two numbered rows with the date "November 16".
C3_ResultByPriority ==
    /\ (pc = "done" /\ strategy \notin {"empty", "json"}) =>
          /\ members # <<>> =>
                /\ result.headers = NumberNameHeaders
                /\ result.rows = members
                /\ Get(result.metadata.o, <<"s","e","c","t","i","o","n">>) = JStr(<<"M","e","m","b","e","r","s">>)
          /\ (members = <<>> /\ guide # <<>>) =>
                /\ result.headers = NumberNameHeaders
                /\ result.rows = guide
                /\ Get(result.metadata.o, <<"s","e","c","t","i","o","n">>) = JStr(<<"G","u","i","d","e">>)
          /\ (members = <<>> /\ guide = <<>> /\ keyValuePairs # <<>>) =>
                /\ result.headers = KeyValueHeaders
                /\ result.rows = keyValuePairs
    /\ (pc \in {"table", "fallback", "final"}
           \/ strategy \in {"table", "structured", "content"}) =>
          (members = <<>> /\ guide = <<>> /\ keyValuePairs = <<>>)
    /\ (pc = "done" /\ ocrText = ScenarioC) =>
          /\ result.headers = NumberNameHeaders
          /\ result.rows =
                << JObj(<< [k |-> <<"N","u","m","b","e","r">>, v |-> JStr(<<"1">>)],
                           [k |-> <<"N","a","m","e">>, v |-> JStr(<<"J","o","h","n"," ","S","m","i","t","h">>)] >>),
                   JObj(<< [k |-> <<"N","u","m","b","e","r">>, v |-> JStr(<<"2">>)],
                           [k |-> <<"N","a","m","e">>, v |-> JStr(<<"J","a","n","e"," ","D","o","e">>)] >>) >>
          /\ Get(result.metadata.o, <<"d","a","t","e">>) = JStr(<<"N","o","v","e","m","b","e","r"," ","1","6">>)

\* members and guide rows were both collected and the members rows returned
C3_Witness ==
    /\ pc = "done"
    /\ members # <<>>
    /\ guide # <<>>
    /\ members # guide
    /\ result.rows = members

\* the line is a section header (rule c)
IsSectionLine(line) ==
    \/ includes(toLowerCase(line), <<"m","e","m","b","e","r">>)
    \/ includes(toLowerCase(line), <<"g","u","i","d","e">>)
    \/ includes(toLowerCase(line), <<"w","e","a","t","h","e","r">>)
    \/ includes(toLowerCase(line), <<"c","o","n","d","i","t","i","o","n">>)
    \/ includes(toLowerCase(line), <<"t","o","t","a","l">>)

\* none of the rules (a) to (d) applies to the line
PastNumbered(line) ==
    /\ ~datePattern(line).ok
    /\ ~recordPattern(line)
    /\ ~IsSectionLine(line)
    /\ ~numberedLinePattern(line).ok

\* the line is a bare 'First Last' name and the section is members or guide
IsSectionName(line) ==
    /\ currentSection \in {"members", "guide"}
    /\ namePattern(line)
    /\ ~startsWithDigit(line)

\* the scan is about to handle lines[i]
Scanning ==
    pc = "scan" /\ i <= Len(lines)

\* the row a bare name adds to the list of the current section
NameRowAdded ==
    /\ keyValuePairs' = keyValuePairs
    /\ currentSection = "members" =>
          (members' = Append(members, NumberName(<<>>, lines[i])) /\ guide' = guide)
    /\ currentSection = "guide" =>
          (guide' = Append(guide, NumberName(<<>>, lines[i])) /\ members' = members)

\* C4 as stated: in the members or guide section the bare-name rule (e) is
\* tried before the key: value rule (f), so a line that matches both is
\* appended to the members/guide list as a name row and not collected as a
\* key-value pair.
C4_NameBeforeKeyValue ==
    [][(Scanning /\ PastNumbered(lines[i]) /\ IsSectionName(lines[i]))
          => NameRowAdded]_vars

\* C4: each line of the scan is handled by the first rule that matches, in
\* the order date, record type, section header, numbered line, key: value
\* pair, and then the bare name of the members or guide section: a line that
\* matches both the key: value and the bare-name pattern is collected as a
\* key-value pair.
C4_KeyValueBeforeName ==
    [][Scanning =>
          /\ datePattern(lines[i]).ok =>
                /\ foundDate' = JStr(datePattern(lines[i]).g1)
                /\ UNCHANGED <<foundRecordType, currentSection, members, guide,
                               keyValuePairs, otherData>>
          /\ (~datePattern(lines[i]).ok /\ recordPattern(lines[i])) =>
                /\ foundRecordType' = JStr(lines[i])
                /\ UNCHANGED <<foundDate, currentSection, members, guide,
                               keyValuePairs, otherData>>
          /\ (/\ ~datePattern(lines[i]).ok
              /\ ~recordPattern(lines[i])
              /\ IsSectionLine(lines[i])) =>
                /\ currentSection' \in {"members", "guide", "weather", "totals"}
                /\ UNCHANGED <<foundDate, foundRecordType, members, guide,
                               keyValuePairs, otherData>>
          /\ (/\ ~datePattern(lines[i]).ok
              /\ ~recordPattern(lines[i])
              /\ ~IsSectionLine(lines[i])
              /\ numberedLinePattern(lines[i]).ok) =>
                /\ Len(members') + Len(guide') = Len(members) + Len(guide) + 1
                /\ UNCHANGED <<foundDate, foundRecordType, currentSection,
                               keyValuePairs, otherData>>
          /\ (PastNumbered(lines[i]) /\ keyValuePattern(lines[i]).ok) =>
                /\ keyValuePairs' =
                      Append(keyValuePairs,
                             KeyValue(keyValuePattern(lines[i]).g1,
                                      keyValuePattern(lines[i]).g2))
                /\ UNCHANGED <<foundDate, foundRecordType, currentSection,
                               members, guide, otherData>>
          /\ (/\ PastNumbered(lines[i])
              /\ ~keyValuePattern(lines[i]).ok
              /\ IsSectionName(lines[i])) =>
                /\ NameRowAdded
                /\ UNCHANGED <<foundDate, foundRecordType, currentSection,
                               otherData>>
      ]_vars

\* 'John Smith: 5' was scanned in the members or guide section and collected
\* as a key-value pair
C4_Witness ==
    /\ pc = "scan"
    /\ i > 1
    /\ lines[i - 1] = <<"J","o","h","n"," ","S","m","i","t","h",":"," ","5">>
    /\ namePattern(lines[i - 1])
    /\ currentSection \in {"members", "guide"}
    /\ keyValuePairs # <<>>
    /\ keyValuePairs[Len(keyValuePairs)] = KeyValue(<<"J","o","h","n"," ","S","m","i","t","h">>, <<"5">>)

\* the value a row that is no array and no object is turned into
ValueRow(row) ==
    JObj(<< [k |-> <<"V","a","l","u","e">>,
             v |-> JStr(CASE row.t = "null" -> <<"n","u","l","l">>
                          [] row.t = "num" -> IntToStr(row.n)
                          [] row.t = "bool" -> (IF row.b THEN <<"t","r","u","e">> ELSE <<"f","a","l","s","e">>)
                          [] OTHER -> row.s)] >>)

\* the array row is keyed by the headers positionally, the missing positions
\* holding the empty string
AlignedRow(headers, row, out) ==
    /\ out.t = "obj"
    /\ \A j \in 1..Len(out.o) : \E h \in 1..Len(headers) : out.o[j].k = headers[h].s
    /\ \A h \in 1..Len(headers) :
          (\A g \in (h + 1)..Len(headers) : headers[g] # headers[h]) =>
             Get(out.o, headers[h].s) =
                IF h <= Len(row) /\ row[h] # JNull THEN row[h] ELSE JStr(<<>>)

\* the headers and the rows of the value the text encodes
SourceHeaders ==
    Get(jsonSource.o, <<"h","e","a","d","e","r","s">>).a

SourceRows ==
    Get(jsonSource.o, <<"r","o","w","s">>).a

\* C5: for a text that is the JSON encoding of an object with an array
\* headers and an array rows, the returned headers are those headers in the
\* same order and the returned rows are, in the same order: each object row
\* with the same key/value pairs, each array row as a mapping keyed by the
\* headers positionally (missing positions the empty string), and any other
\* row as {Value: the row as a string}; no heuristic strategy takes part.
C5_JsonRoundTrip ==
    (pc = "done" /\ jsonSource # JUndef) =>
        /\ strategy = "json"
        /\ result.headers = SourceHeaders
        /\ Len(result.rows) = Len(SourceRows)
        /\ \A k \in 1..Len(SourceRows) :
              CASE SourceRows[k].t = "obj" ->
                      /\ result.rows[k].t = "obj"
                      /\ Len(result.rows[k].o) = Len(SourceRows[k].o)
                      /\ Range(result.rows[k].o) = Range(SourceRows[k].o)
                [] SourceRows[k].t = "arr" ->
                      AlignedRow(SourceHeaders, SourceRows[k].a, result.rows[k])
                [] OTHER -> result.rows[k] = ValueRow(SourceRows[k])

\* a text that encodes an object row, an array row shorter than the headers
\* and with them a returned table
C5_Witness ==
    /\ pc = "done"
    /\ strategy = "json"
    /\ jsonSource # JUndef
    /\ \E k \in 1..Len(SourceRows) :
          SourceRows[k].t = "obj" /\ SourceRows[k].o # <<>>
    /\ \E k \in 1..Len(SourceRows) :
          SourceRows[k].t = "arr" /\ Len(SourceRows[k].a) < Len(SourceHeaders)

\* the number of maximal runs of two or more whitespace characters in a line
SpaceRuns(line) ==
    Cardinality({k \in 1..(Len(line) - 1) :
                    /\ line[k] \in WS
                    /\ line[k + 1] \in WS
                    /\ (k = 1 \/ line[k - 1] \notin WS)})

TwoPipesOrTwoRuns(line) ==
    CountChar(line, "|") >= 2 \/ SpaceRuns(line) >= 2

TwoPipesOrOneRun(line) ==
    CountChar(line, "|") >= 2 \/ SpaceRuns(line) >= 1

\* C6 as stated: a line is a candidate tabular line only if it has at least
\* two pipe characters or at least two runs of two or more spaces, so the
\* header of a detected table comes from such a line.
C6_CandidateNeedsTwoRuns ==
    (pc = "done" /\ strategy = "table") =>
        \E k \in 1..Len(lines) :
            /\ TwoPipesOrTwoRuns(lines[k])
            /\ result.headers = StrArr(parsedRow(lines[k]))

\* C6: a line is a candidate tabular line if and only if it has at least two
\* pipe characters or at least one run of two or more whitespace characters:
\* the header of a detected table comes from such a line, its rows from such
\* lines after the header, and the strategy is passed over only when no such
\* line has more than one column.
C6_CandidateNeedsOneRun ==
    /\ (pc = "done" /\ strategy = "table") =>
          \E k \in 1..Len(lines) :
              /\ TwoPipesOrOneRun(lines[k])
              /\ result.headers = StrArr(parsedRow(lines[k]))
              /\ Len(result.rows) <=
                    Cardinality({j \in (k + 1)..Len(lines) : TwoPipesOrOneRun(lines[j])})
    /\ (pc \in {"fallback", "final"} \/ strategy \in {"structured", "content"}) =>
          \A k \in 1..Len(lines) :
              TwoPipesOrOneRun(lines[k]) => Len(parsedRow(lines[k])) <= 1

\* 'Name  Count', with one run of spaces and no pipe, is the header of the
\* detected table and 'Bob  7' its row
C6_Witness ==
    /\ pc = "done"
    /\ strategy = "table"
    /\ result.headers = <<JStr(<<"N","a","m","e">>), JStr(<<"C","o","u","n","t">>)>>
    /\ Len(result.rows) = 1
    /\ ~TwoPipesOrTwoRuns(lines[1])


(***************************************************************************)
(* C24: the current section of the line scan                               *)
(***************************************************************************)
Sections ==
    {"none", "members", "guide", "weather", "totals"}

\* the section a line names: 'member', 'guide', 'weather' or 'condition',
\* 'total', looked for in that order in the line in lower case
HeaderOf(line) ==
    IF includes(toLowerCase(line), <<"m","e","m","b","e","r">>) THEN "members"
    ELSE IF includes(toLowerCase(line), <<"g","u","i","d","e">>) THEN "guide"
    ELSE IF includes(toLowerCase(line), <<"w","e","a","t","h","e","r">>) THEN "weather"
    ELSE IF includes(toLowerCase(line), <<"c","o","n","d","i","t","i","o","n">>) THEN "weather"
    ELSE IF includes(toLowerCase(line), <<"t","o","t","a","l">>) THEN "totals"
    ELSE "none"

\* a line '<digits> <rest>' that the rules applied before (date, record type,
\* section header) have not taken
NumberedLine(line) ==
    /\ numberedLinePattern(line).ok
    /\ ~datePattern(line).ok
    /\ ~recordPattern(line)
    /\ HeaderOf(line) = "none"

\* row is { Number: the digits, Name: the rest } of the line
NumberAndNameOf(row, line) ==
    /\ row.t = "obj"
    /\ Keys(row.o) = <<<<"N","u","m","b","e","r">>, <<"N","a","m","e">>>>
    /\ Get(row.o, <<"N","u","m","b","e","r">>) = JStr(numberedLinePattern(line).g1)
    /\ Get(row.o, <<"N","a","m","e">>) = JStr(numberedLinePattern(line).g2)

\* the lists of rows of the scan are left as they are
NoRowAdded ==
    /\ members' = members
    /\ guide' = guide
    /\ keyValuePairs' = keyValuePairs
    /\ otherData' = otherData

\* C24: the current section is one of none, members, guide, weather, totals;
\* it changes only on a line that names a section, to the section named, and
\* such a line adds no row; a numbered line '<digits> <rest>' is appended to
\* the guide list exactly when the current section is guide and to the
\* members list in every other case, with Number and Name taken from the
\* line.
C24_SectionScan ==
    [][(Scanning /\ i' = i + 1) =>
          /\ currentSection \in Sections
          /\ currentSection' \in Sections
          /\ currentSection' # currentSection =>
                currentSection' = HeaderOf(lines[i])
          /\ HeaderOf(lines[i]) # "none" => NoRowAdded
          /\ NumberedLine(lines[i]) =>
                /\ currentSection' = currentSection
                /\ IF currentSection = "guide"
                   THEN /\ Len(guide') = Len(guide) + 1
                        /\ SubSeq(guide', 1, Len(guide)) = guide
                        /\ NumberAndNameOf(guide'[Len(guide')], lines[i])
                        /\ members' = members
                   ELSE /\ Len(members') = Len(members) + 1
                        /\ SubSeq(members', 1, Len(members)) = members
                        /\ NumberAndNameOf(members'[Len(members')], lines[i])
                        /\ guide' = guide
      ]_vars

\* the scan of 'Guide / 1 John Smith / Day Total / 2 Jane Doe' is over: the
\* first numbered line went to the guide list, the second, in the totals
\* section, to the members list
C24_Witness ==
    /\ pc = "scan"
    /\ i > Len(lines)
    /\ currentSection = "totals"
    /\ Len(guide) = 1
    /\ Get(guide[1].o, <<"N","a","m","e">>) = JStr(<<"J","o","h","n"," ","S","m","i","t","h">>)
    /\ Len(members) = 1
    /\ Get(members[1].o, <<"N","u","m","b","e","r">>) = JStr(<<"2">>)

(***************************************************************************)
(* C26: the structured fallback and the final fallback                     *)
(***************************************************************************)
\* C26 amended: the structured fallback yields at least one row whenever the
\* text has a non-blank line, and the final fallback is reached and returned
\* only for a text without non-blank lines, and then with the headers
\* ['Content'] and zero rows; the headers ['Content'] with rows are never the
\* result of the final fallback.
C26_FinalFallbackOnlyForBlank ==
    /\ (pc = "done" /\ strategy = "structured") => Len(result.rows) >= 1
    /\ pc = "final" => ~NonBlank(ocrText)
    /\ (pc = "done" /\ strategy = "content") =>
          /\ ~NonBlank(ocrText)
          /\ result.headers = <<JStr(<<"C","o","n","t","e","n","t">>)>>
          /\ result.rows = <<>>

\* C26 as stated: the structured fallback yields at least one row whenever
\* the text has a non-blank line, the final fallback is returned only for a
\* text without non-blank lines and then with zero rows, and no result has
\* the headers ['Content'] together with a non-empty list of rows.
C26_NoContentRows ==
    /\ C26_FinalFallbackOnlyForBlank
    /\ (pc = "done" /\ result.headers = <<JStr(<<"C","o","n","t","e","n","t">>)>>) => result.rows = <<>>

\* the final fallback returned for a text of blanks
C26_Witness ==
    /\ pc = "done"
    /\ strategy = "content"
    /\ ocrText # <<>>
    /\ result.rows = <<>>
(***************************************************************************)
(* Columns and cells                                                       *)
(***************************************************************************)
\* the result of findIndex over the indices that pass its test: the 1-based
\* index of the first, 0 where findIndex returns -1
FirstIndex(passing) ==
    IF passing = {} THEN 0 ELSE Min(passing)

\* headers[idx], undefined for idx -1
HeaderAt(headers, idx) ==
    IF idx >= 1 /\ idx <= Len(headers) THEN JStr(headers[idx]) ELSE JUndef

\* row[key] where key is a header or undefined (the property "undefined")
Cell(row, key) ==
    Get(row, ToStr(key))

memberIdx(headers) ==
    FirstIndex({k \in 1..Len(headers) : includes(toLowerCase(headers[k]), <<"m","e","m","b","e","r">>)})

guideIdx(headers) ==
    FirstIndex({k \in 1..Len(headers) : includes(toLowerCase(headers[k]), <<"g","u","i","d","e">>)})

blindIdx(headers) ==
    FirstIndex({k \in 1..Len(headers) : includes(toLowerCase(headers[k]), <<"b","l","i","n","d">>)})

gunsIdx(headers) ==
    FirstIndex({k \in 1..Len(headers) : includes(toLowerCase(headers[k]), <<"g","u","n">>)})

dateColIdx(headers) ==
    FirstIndex({k \in 1..Len(headers) : toLowerCase(headers[k]) = <<"d","a","t","e">>})

\* h.match(/^\d{4}-\d{2}-\d{2}/)
startsWithIsoDate(h) ==
    /\ Len(h) >= 10
    /\ \A k \in {1, 2, 3, 4, 6, 7, 9, 10} : h[k] \in Digits
    /\ h[5] = "-"
    /\ h[8] = "-"

\* headers.find(h => h.match(/^\d{4}-\d{2}-\d{2}/))
dateValueCol(headers) ==
    HeaderAt(headers, FirstIndex({k \in 1..Len(headers) : startsWithIsoDate(headers[k])}))

\* parseFloat of a string: optional whitespace, an optional sign, digits. The
\* cells of this model hold integers (no fraction, exponent or "Infinity").
NaN == [nan |-> TRUE, n |-> 0]

parseFloatStr(s) ==
    LET b == RunEnd(s, 1, WS) + 1
        signed == CharAt(s, b) \in {"-", "+"}
        d == IF signed THEN b + 1 ELSE b
        e == RunEnd(s, d, Digits)
    IN  IF e < d THEN NaN
        ELSE [nan |-> FALSE,
              n |-> IF CharAt(s, b) = "-" THEN 0 - DigitsVal(SubSeq(s, d, e))
                    ELSE DigitsVal(SubSeq(s, d, e))]

\* parseFloat(v) || 0
parseFloatOr0(v) ==
    LET p == parseFloatStr(ToStr(v))
    IN  IF p.nan THEN 0 ELSE p.n

\* the filter of speciesCols
isSpeciesCol(name) ==
    LET lower == toLowerCase(name)
    IN  /\ \/ includes(lower, <<"m","a","l","l","a","r","d">>)
           \/ includes(lower, <<"s","p","r","i","g">>)
           \/ includes(lower, <<"w","i","d","g","e","o","n">>)
           \/ includes(lower, <<"t","e","a","l">>)
           \/ includes(lower, <<"w","o","o","d">>)
           \/ includes(lower, <<"o","t","h","e","r">>)
           \/ includes(lower, <<"g","e","e","s","e">>)
           \/ includes(lower, <<"p","h","e","a","s","a","n","t">>)
        /\ ~includes(lower, <<"d","a","y"," ","t","o","t","a","l">>)
        /\ ~includes(lower, <<"h","u","n","t","e","r"," ","t","o","t","a","l">>)

speciesCols(headers) ==
    SelectSeq(headers, isSpeciesCol)

\* sheet.name || 'Unknown'
sheetDate(sheet) ==
    IF sheet.name = <<>> THEN <<"U","n","k","n","o","w","n">> ELSE sheet.name

\* the variant that compares the label without toLowerCase
sheetConditionCaseSensitive(sheet) ==
    LET headers == sheet.headers
        dc == dateColIdx(headers)
        isConditionRow(r) ==
            /\ dc >= 1
            /\ Truthy(Cell(r, HeaderAt(headers, dc)))
            /\ trim(ToStr(Cell(r, HeaderAt(headers, dc))))
                  \in {<<"c","o","n","d","i","t","i","o","n","s">>, <<"c","o","n","d","i","t","i","o","n">>}
        at == {k \in 1..Len(sheet.rows) : isConditionRow(sheet.rows[k])}
        conditionRow == sheet.rows[Min(at)]
        dvc == dateValueCol(headers)
        conditionValue == trim(ToStr(Cell(conditionRow, dvc)))
    IN  IF /\ at # {}
           /\ dvc # JUndef
           /\ Truthy(Cell(conditionRow, dvc))
           /\ conditionValue # <<>>
           /\ ~startsWithIsoDate(conditionValue)
        THEN conditionValue
        ELSE <<"U","n","k","n","o","w","n">>

\* the condition of a sheet ("Extract condition for this sheet")
sheetCondition(sheet) ==
    LET headers == sheet.headers
        dc == dateColIdx(headers)
        isConditionRow(r) ==
            /\ dc >= 1
            /\ Truthy(Cell(r, HeaderAt(headers, dc)))
            /\ toLowerCase(trim(ToStr(Cell(r, HeaderAt(headers, dc)))))
                  \in {<<"c","o","n","d","i","t","i","o","n","s">>, <<"c","o","n","d","i","t","i","o","n">>}
        at == {k \in 1..Len(sheet.rows) : isConditionRow(sheet.rows[k])}
        conditionRow == sheet.rows[Min(at)]
        dvc == dateValueCol(headers)
        conditionValue == trim(ToStr(Cell(conditionRow, dvc)))
    IN  IF /\ at # {}
           /\ dvc # JUndef
           /\ Truthy(Cell(conditionRow, dvc))
           /\ conditionValue # <<>>
           /\ ~startsWithIsoDate(conditionValue)
        THEN conditionValue
        ELSE <<"U","n","k","n","o","w","n">>

(***************************************************************************)
(* AnalyticsDashboard: one row of a sheet                                  *)
(***************************************************************************)
\* "Skip header row, empty rows, and 'Day Total' entries"
skipMember(member) ==
    LET memberLower == toLowerCase(member)
    IN  \/ member = <<>>
        \/ memberLower = <<"m","e","m","b","e","r">>
        \/ includes(memberLower, <<"d","a","y"," ","t","o","t","a","l">>)
        \/ includes(memberLower, <<"t","o","t","a","l">>)

\* the variant that drops every row without birds
isEmptyRowIgnoringGuns(totalDucks, totalGeese, guns) ==
    totalDucks = 0 /\ totalGeese = 0

\* "Skip empty rows"
isEmptyRow(totalDucks, totalGeese, guns) ==
    totalDucks = 0 /\ totalGeese = 0 /\ guns = 0

\* the variant that keeps every non-zero value, negative ones included
addSpeciesValueNonZero(acc, name, value) ==
    LET isGeese == includes(toLowerCase(name), <<"g","e","e","s","e">>)
    IN  IF value # 0
        THEN [speciesKills |-> Put(acc.speciesKills, name, value),
              totalGeese |-> acc.totalGeese + (IF isGeese THEN value ELSE 0),
              totalDucks |-> acc.totalDucks + (IF isGeese THEN 0 ELSE value)]
        ELSE acc

\* the body of the callback of speciesCols.forEach once value is parsed
addSpeciesValue(acc, name, value) ==
    LET isGeese == includes(toLowerCase(name), <<"g","e","e","s","e">>)
    IN  IF value > 0
        THEN [speciesKills |-> Put(acc.speciesKills, name, value),
              totalGeese |-> acc.totalGeese + (IF isGeese THEN value ELSE 0),
              totalDucks |-> acc.totalDucks + (IF isGeese THEN 0 ELSE value)]
        ELSE acc

\* speciesCols.forEach: speciesKills, totalDucks and totalGeese of a row.
\* rawValue is row[name] || row[headers[idx]] || '' and headers[idx] is name.
RECURSIVE countSpecies(_, _, _)
countSpecies(cols, row, acc) ==
    IF cols = <<>> THEN acc
    ELSE countSpecies(Tail(cols), row,
             addSpeciesValue(acc, Head(cols),
                 parseFloatOr0(Or(Cell(row, JStr(Head(cols))), JStr(<<>>)))))

\* let totalDucks = 0, totalGeese = 0; const speciesKills = {}
NoKills ==
    [speciesKills |-> <<>>, totalGeese |-> 0, totalDucks |-> 0]

\* parseFloat(row[first] || row[headers.find(both words)] || 0) || 0
mallardCell(headers, row, first, word) ==
    LET col == HeaderAt(headers,
                 FirstIndex({k \in 1..Len(headers) :
                                /\ includes(toLowerCase(headers[k]), word)
                                /\ includes(toLowerCase(headers[k]), <<"m","a","l","l","a","r","d">>)}))
    IN  parseFloatOr0(Or(Or(Cell(row, JStr(first)), Cell(row, col)), JNum(0)))

\* the values a row yields in analytics, and whether it yields a record
fieldsOf(member, rowGuide, blind, guns, counts, recordMallards) ==
    [member |-> member, guide |-> rowGuide, blind |-> blind, guns |-> guns,
     totalDucks |-> counts.totalDucks, totalGeese |-> counts.totalGeese,
     speciesKills |-> counts.speciesKills,
     recordMallards |-> recordMallards,
     skipped |-> skipMember(member),
     empty |-> isEmptyRow(counts.totalDucks, counts.totalGeese, guns)]

\* (row[headers[idx]] || '').toString().trim()
textCell(headers, row, idx) ==
    trim(ToStr(Or(Cell(row, HeaderAt(headers, idx)), JStr(<<>>))))

\* parseFloat(row[headers[gunsIdx]] || 0) || 0
gunsCell(headers, row) ==
    parseFloatOr0(Or(Cell(row, HeaderAt(headers, gunsIdx(headers))), JNum(0)))

rowFields(sheet, row) ==
    fieldsOf(textCell(sheet.headers, row, memberIdx(sheet.headers)),
             textCell(sheet.headers, row, guideIdx(sheet.headers)),
             textCell(sheet.headers, row, blindIdx(sheet.headers)),
             gunsCell(sheet.headers, row),
             countSpecies(speciesCols(sheet.headers), row, NoKills),
             mallardCell(sheet.headers, row, <<"D","r","a","k","e"," ","M","a","l","l","a","r","d">>, <<"d","r","a","k","e">>)
                 + mallardCell(sheet.headers, row, <<"H","e","n"," ","M","a","l","l","a","r","d">>, <<"h","e","n">>))

\* const record = { date, member, guide, blind: String(blind || 'Unknown'), ... }
recordOf(sheet, f) ==
    [date |-> sheetDate(sheet),
     member |-> f.member,
     guide |-> f.guide,
     blind |-> IF f.blind = <<>> THEN <<"U","n","k","n","o","w","n">> ELSE f.blind,
     guns |-> f.guns,
     condition |-> sheetCondition(sheet),
     totalDucks |-> f.totalDucks,
     totalGeese |-> f.totalGeese,
     speciesKills |-> f.speciesKills,
     totalMallards |-> f.recordMallards]

\* the variant that keeps the counts of the last record of a key
setDucksGeese(stats, key, totalDucks, totalGeese) ==
    Put(stats, key, [ducks |-> totalDucks, geese |-> totalGeese])

\* stats[key].ducks += totalDucks; stats[key].geese += totalGeese
addDucksGeese(stats, key, totalDucks, totalGeese) ==
    LET old == IF HasKey(stats, key) THEN Get(stats, key)
               ELSE [ducks |-> 0, geese |-> 0]
    IN  Put(stats, key, [ducks |-> old.ducks + totalDucks,
                         geese |-> old.geese + totalGeese])

\* stats[key] = (stats[key] || 0) + count
addCount(stats, key, count) ==
    Put(stats, key, (IF HasKey(stats, key) THEN Get(stats, key) ELSE 0) + count)

\* Object.entries(speciesKills).forEach(([species, count]) => { stats[species] ... })
RECURSIVE addSpecies(_, _)
addSpecies(stats, kills) ==
    IF kills = <<>> THEN stats
    ELSE addSpecies(addCount(stats, Head(kills).k, Head(kills).v), Tail(kills))

\* `${member}-${blindKey}`
memberBlindKey(member, blindKey) ==
    member \o <<"-">> \o blindKey

(***************************************************************************)
(* AnalyticsDashboard: the arrays and the summary made of the accumulators *)
(***************************************************************************)
\* a quotient a / b of two integers, b > 0, kept as the pair of them
Ratio(n, d) ==
    [n |-> n, d |-> d]

\* a / b < c / d
RatioLess(x, y) ==
    x.n * y.d < y.n * x.d

\* Array.prototype.sort with a comparator that orders the elements
\* consistently: the sort is stable, so an element comes after the ones the
\* comparator puts before it and after the equal ones that precede it
StableSort(s, Before(_, _)) ==
    LET pos(k) == 1 + Cardinality({j \in 1..Len(s) :
                          \/ Before(s[j], s[k])
                          \/ (j < k /\ ~Before(s[k], s[j]))})
    IN  [p \in 1..Len(s) |-> s[CHOOSE k \in 1..Len(s) : pos(k) = p]]

\* (a, b) => b.total - a.total
ByTotalDesc(a, b) ==
    a.total > b.total

\* (a, b) => b.average - a.average
ByAverageDesc(a, b) ==
    RatioLess(b.average, a.average)

\* Array.prototype.slice(0, n)
Take(s, n) ==
    SubSeq(s, 1, Min({n, Len(s)}))

\* records.filter(...).length || 1
OrOne(n) ==
    IF n = 0 THEN 1 ELSE n

\* the variant that counts the distinct dates of the records of a member
memberHuntsByDate(records, name) ==
    OrOne(Cardinality({records[k].date : k \in
                          {j \in 1..Len(records) : records[j].member = name}}))

\* allRecords.filter(r => r.member === name).length || 1
memberHunts(records, name) ==
    OrOne(Cardinality({k \in 1..Len(records) : records[k].member = name}))

\* allRecords.filter(r => String(r.blind) === String(name)).length || 1
blindHunts(records, name) ==
    OrOne(Cardinality({k \in 1..Len(records) : records[k].blind = name}))

\* allRecords.filter(r => r.guide === name).length || 1
guideHunts(records, name) ==
    OrOne(Cardinality({k \in 1..Len(records) : records[k].guide = name}))

\* the element of allMembersArray made of an entry of memberStats
memberAggregate(name, stats, hunts) ==
    [name |-> name,
     ducks |-> stats.ducks,
     geese |-> stats.geese,
     total |-> stats.ducks + stats.geese,
     avgDucks |-> Ratio(stats.ducks, hunts),
     avgGeese |-> Ratio(stats.geese, hunts),
     average |-> Ratio(stats.ducks + stats.geese, hunts),
     hunts |-> hunts]

\* the element of topBlinds or topGuides made of an entry of blindStats or
\* guideStats and of the mallards counted for its name
mallardAggregate(name, stats, mallards, hunts) ==
    [name |-> name,
     ducks |-> stats.ducks,
     geese |-> stats.geese,
     total |-> stats.ducks + stats.geese,
     mallards |-> mallards,
     otherDucks |-> stats.ducks - mallards,
     average |-> Ratio(stats.ducks + stats.geese, hunts),
     avgDucks |-> Ratio(stats.ducks, hunts),
     avgGeese |-> Ratio(stats.geese, hunts),
     avgMallards |-> Ratio(mallards, hunts),
     avgOtherDucks |-> Ratio(stats.ducks - mallards, hunts),
     hunts |-> hunts]

\* blindMallardStats[name] || 0
countOr0(stats, name) ==
    IF HasKey(stats, name) THEN Get(stats, name) ELSE 0

\* Object.entries(memberStats).map(...).sort((a, b) => b.total - a.total)
allMembersArray(stats, records) ==
    StableSort([k \in 1..Len(stats) |->
                   memberAggregate(stats[k].k, stats[k].v,
                                   memberHunts(records, stats[k].k))],
               ByTotalDesc)

\* .filter(([name]) => name && name !== 'Unknown' && name !== '')
isBlindName(e) ==
    e.k # <<>> /\ e.k # <<"U","n","k","n","o","w","n">>

\* Object.entries(blindStats).filter(...).map(...).sort(by total)
topBlindsOf(stats, mallardStats, records) ==
    LET kept == SelectSeq(stats, isBlindName)
    IN  StableSort([k \in 1..Len(kept) |->
                       mallardAggregate(kept[k].k, kept[k].v,
                                        countOr0(mallardStats, kept[k].k),
                                        blindHunts(records, kept[k].k))],
                   ByTotalDesc)

\* .filter(([name]) => name)
isGuideName(e) ==
    e.k # <<>>

\* Object.entries(guideStats).filter(...).map(...).sort(by total).slice(0, 5)
topGuidesOf(stats, mallardStats, records) ==
    LET kept == SelectSeq(stats, isGuideName)
    IN  Take(StableSort([k \in 1..Len(kept) |->
                            mallardAggregate(kept[k].k, kept[k].v,
                                             countOr0(mallardStats, kept[k].k),
                                             guideHunts(records, kept[k].k))],
                        ByTotalDesc),
             5)

\* Object.entries(speciesStats).map(([name, total]) => ({ name, total })).sort(...)
topSpeciesOf(stats) ==
    StableSort([k \in 1..Len(stats) |-> [name |-> stats[k].k, total |-> stats[k].v]],
               ByTotalDesc)

\* the species columns of the first sheet, in the order of its headers
speciesOrderOf(shs) ==
    IF Len(shs) > 0 THEN speciesCols(shs[1].headers) ELSE <<>>

(***************************************************************************)
(* AnalyticsDashboard: the dates of the sheets and dateTrends              *)
(***************************************************************************)
\* the sequence without the later occurrences of an element: the order in
\* which a Set enumerates what was added to it
RECURSIVE Distinct(_)
Distinct(s) ==
    IF s = <<>> THEN <<>>
    ELSE LET front == Distinct(SubSeq(s, 1, Len(s) - 1))
         IN  IF \E k \in 1..Len(front) : front[k] = s[Len(s)]
             THEN front ELSE Append(front, s[Len(s)])

NotUnknown(date) ==
    date # <<"U","n","k","n","o","w","n">>

\* allDates: sheet.name || 'Unknown' of every sheet, 'Unknown' left out
allDatesOf(shs) ==
    SelectSeq(Distinct([k \in 1..Len(shs) |-> sheetDate(shs[k])]), NotUnknown)

\* parseInt(s, 10): optional whitespace, an optional sign, digits
parseInt(s) ==
    parseFloatStr(s)

\* the days from 1 January of year 0 to 1 January of year y (y >= 0)
DaysBeforeYear(y) ==
    365 * y + ((y + 3) \div 4) - ((y + 99) \div 100) + ((y + 399) \div 400)

IsLeap(y) ==
    (y % 4 = 0 /\ y % 100 # 0) \/ y % 400 = 0

\* the days from 1 January of year y to the first of month m (0-based)
DaysBeforeMonth(y, m) ==
    << 0, 31, 59, 90, 120, 151, 181, 212, 243, 273, 304, 334 >>[m + 1]
        + (IF m >= 2 /\ IsLeap(y) THEN 1 ELSE 0)

\* new Date(year, month, day).getTime(), in days since 1 January 1970: a year
\* of 0..99 is read as 1900 + year, a month or day out of range carries over.
\* Local and UTC midnight of a day are the same instant at this grain.
dateTime(year, month, day) ==
    LET full == IF year >= 0 /\ year <= 99 THEN 1900 + year ELSE year
        y == full + (month \div 12)
        m == month % 12
    IN  DaysBeforeYear(y) + DaysBeforeMonth(y, m) + day - 1 - DaysBeforeYear(1970)

\* new Date(dateStr).getTime() for the names of this model: a name of the
\* form YYYY-MM-DD is that day, any other name gives NaN
isoDateTime(s) ==
    IF /\ Len(s) = 10
       /\ startsWithIsoDate(s)
       /\ DigitsVal(SubSeq(s, 6, 7)) \in 1..12
       /\ DigitsVal(SubSeq(s, 9, 10)) \in 1..31
    THEN [nan |-> FALSE,
          n |-> dateTime(DigitsVal(SubSeq(s, 1, 4)),
                         DigitsVal(SubSeq(s, 6, 7)) - 1,
                         DigitsVal(SubSeq(s, 9, 10)))]
    ELSE NaN

\* new Date(year, month, day).getTime() of the three parts of MM_DD_YY
partsDateTime(month, day, year) ==
    IF month.nan \/ day.nan \/ year.nan THEN NaN
    ELSE [nan |-> FALSE,
          n |-> dateTime(IF year.n < 100 THEN year.n + 2000 ELSE year.n,
                         month.n - 1, day.n)]

\* parseDate of AnalyticsDashboard
parseDate(dateStr) ==
    LET parts == splitChar(dateStr, "_")
    IN  IF includes(dateStr, <<"_">>) /\ Len(parts) = 3
        THEN partsDateTime(parseInt(parts[1]), parseInt(parts[2]),
                           parseInt(parts[3]))
        ELSE isoDateTime(dateStr)

\* the blinds of the records of a date: uniqueBlinds.size
blindCountOf(records, date) ==
    Cardinality({trim(records[k].blind) : k \in
                    {j \in 1..Len(records) :
                        /\ records[j].date = date
                        /\ records[j].blind # <<>>
                        /\ records[j].blind # <<"U","n","k","n","o","w","n">>
                        /\ trim(records[j].blind) # <<>>}})

\* .filter(r => r.date === date).reduce((sum, r) => sum + (r.totalMallards || 0), 0)
RECURSIVE dateMallardsOf(_, _)
dateMallardsOf(records, date) ==
    IF records = <<>> THEN 0
    ELSE (IF Head(records).date = date THEN Head(records).totalMallards ELSE 0)
            + dateMallardsOf(Tail(records), date)

\* the variant that reports a date as hunted whether it has records or not
dateTrendAlwaysHunted(date, stats, records) ==
    [date |-> date,
     dateSort |-> parseDate(date),
     ducks |-> IF HasKey(stats, date) THEN Get(stats, date).ducks ELSE 0,
     geese |-> IF HasKey(stats, date) THEN Get(stats, date).geese ELSE 0,
     mallards |-> dateMallardsOf(records, date),
     total |-> IF HasKey(stats, date)
               THEN Get(stats, date).ducks + Get(stats, date).geese ELSE 0,
     blindCount |-> blindCountOf(records, date),
     status |-> "hunted"]

\* the element of dateTrends for a date: the sums of dateStats[date], or the
\* 'DNH' entry when dateStats has no such key
dateTrend(date, stats, records) ==
    IF HasKey(stats, date)
    THEN [date |-> date,
          dateSort |-> parseDate(date),
          ducks |-> Get(stats, date).ducks,
          geese |-> Get(stats, date).geese,
          mallards |-> dateMallardsOf(records, date),
          total |-> Get(stats, date).ducks + Get(stats, date).geese,
          blindCount |-> blindCountOf(records, date),
          status |-> "hunted"]
    ELSE [date |-> date,
          dateSort |-> parseDate(date),
          ducks |-> 0, geese |-> 0, mallards |-> 0, total |-> 0,
          blindCount |-> 0,
          status |-> "DNH"]

\* (a, b) => a.dateSort - b.dateSort is negative: NaN is never negative
ByDateAsc(a, b) ==
    ~a.dateSort.nan /\ ~b.dateSort.nan /\ a.dateSort.n < b.dateSort.n

\* the comparator orders s consistently: the elements it calls equal are
\* equal to the same elements (with NaN as 0 an entry without a date is equal
\* to every entry, and two entries of different dates are not)
ConsistentByDate(s) ==
    \A a, b, c \in 1..Len(s) :
        (/\ ~ByDateAsc(s[a], s[b]) /\ ~ByDateAsc(s[b], s[a])
         /\ ~ByDateAsc(s[b], s[c]) /\ ~ByDateAsc(s[c], s[b]))
            => (~ByDateAsc(s[a], s[c]) /\ ~ByDateAsc(s[c], s[a]))

\* the orders of the elements of s
Orders(s) ==
    {[p \in 1..Len(s) |-> s[f[p]]] :
        f \in {g \in [1..Len(s) -> 1..Len(s)] :
                  \A a, b \in 1..Len(s) : g[a] = g[b] => a = b}}

\* .sort((a, b) => a.dateSort - b.dateSort): the stable order where the
\* comparator is consistent, an order the implementation defines where not
sortByDate(s) ==
    IF ConsistentByDate(s) THEN {StableSort(s, ByDateAsc)} ELSE Orders(s)

\* Array.from(allDates).map(...) before the sort
dateEntries(shs, stats, records) ==
    [k \in 1..Len(allDatesOf(shs)) |->
        dateTrend(allDatesOf(shs)[k], stats, records)]

(***************************************************************************)
(* AnalyticsDashboard: the summary and the value of analytics              *)
(***************************************************************************)
\* Object.values(memberStats).reduce((sum, stats) => sum + (stats.ducks || 0), 0)
RECURSIVE sumDucks(_)
sumDucks(stats) ==
    IF stats = <<>> THEN 0 ELSE Head(stats).v.ducks + sumDucks(Tail(stats))

RECURSIVE sumGeese(_)
sumGeese(stats) ==
    IF stats = <<>> THEN 0 ELSE Head(stats).v.geese + sumGeese(Tail(stats))

\* n > 0 ? total / n : 0
perOr0(total, n) ==
    IF n > 0 THEN Ratio(total, n) ELSE Ratio(0, 1)

\* the stats of the value of analytics and of filteredAnalytics
summaryOf(totalHunts, totalDucks, totalGeese, totalMallards, totalMemberHunts, uniqueBlinds) ==
    [totalHunts |-> totalHunts,
     totalDucks |-> totalDucks,
     totalGeese |-> totalGeese,
     totalMallards |-> totalMallards,
     avgDucksPerMember |-> perOr0(totalDucks, totalMemberHunts),
     avgGeesePerMember |-> perOr0(totalGeese, totalMemberHunts),
     totalDucksPerHunt |-> perOr0(totalDucks, totalHunts),
     totalGeesePerHunt |-> perOr0(totalGeese, totalHunts),
     uniqueBlinds |-> uniqueBlinds]

\* the characters conditions are made of, in the order of their code units
CodeOrder ==
    <<"\t", "\n", "\r">> \o <<" ","!","#","%","&","'","(",")","*","+",",","-",".","/","0","1","2","3","4","5","6","7","8","9",":",";","<","=",">","?","@","A","B","C","D","E","F","G","H","I","J","K","L","M","N","O","P","Q","R","S","T","U","V","W","X","Y","Z","_","a","b","c","d","e","f","g","h","i","j","k","l","m","n","o","p","q","r","s","t","u","v","w","x","y","z">>

CharCode(c) ==
    CHOOSE k \in 1..Len(CodeOrder) : CodeOrder[k] = c

\* a < b as Array.prototype.sort without a comparator orders strings
StrBefore(a, b) ==
    \E k \in 1..(Len(a) + 1) :
        /\ k <= Len(b)
        /\ SubSeq(a, 1, k - 1) = SubSeq(b, 1, k - 1)
        /\ (k = Len(a) + 1 \/ CharCode(a[k]) < CharCode(b[k]))

\* .filter(c => c && c.toString().trim() && c !== 'Unknown' && c.toLowerCase() !== 'unknown')
isCondition(c) ==
    c # <<>> /\ trim(c) # <<>> /\ c # <<"U","n","k","n","o","w","n">> /\ toLowerCase(c) # <<"u","n","k","n","o","w","n">>

\* [...new Set(allRecords.map(r => r.condition).filter(...))].sort()
uniqueConditionsOf(records) ==
    StableSort(Distinct(SelectSeq([k \in 1..Len(records) |-> records[k].condition],
                                  isCondition)),
               StrBefore)

\* the value of analytics before it is computed, and of filteredAnalytics
\* when there is no filtered record: null
NoAnalytics ==
    [isNull |-> TRUE]

\* the accumulators of a pass over the records
EmptyAcc ==
    [memberStats |-> <<>>, blindStats |-> <<>>, blindMallardStats |-> <<>>,
     speciesStats |-> <<>>, dateStats |-> <<>>, guideStats |-> <<>>,
     guideMallardStats |-> <<>>, memberBlindStats |-> <<>>,
     memberSpeciesStats |-> <<>>, totalMallards |-> 0]

\* the callback of filteredRecords.forEach
addFiltered(acc, r) ==
    [totalMallards |-> acc.totalMallards + r.totalMallards,
     memberStats |->
        IF r.member # <<>>
        THEN addDucksGeese(acc.memberStats, r.member, r.totalDucks, r.totalGeese)
        ELSE acc.memberStats,
     memberSpeciesStats |->
        IF r.member # <<>>
        THEN Put(acc.memberSpeciesStats, r.member,
                 addSpecies(IF HasKey(acc.memberSpeciesStats, r.member)
                            THEN Get(acc.memberSpeciesStats, r.member)
                            ELSE <<>>,
                            r.speciesKills))
        ELSE acc.memberSpeciesStats,
     blindStats |->
        IF r.blind # <<>> /\ r.blind # <<"U","n","k","n","o","w","n">>
        THEN addDucksGeese(acc.blindStats, r.blind, r.totalDucks, r.totalGeese)
        ELSE acc.blindStats,
     blindMallardStats |->
        IF r.blind # <<>> /\ r.blind # <<"U","n","k","n","o","w","n">>
        THEN addCount(acc.blindMallardStats, r.blind, r.totalMallards)
        ELSE acc.blindMallardStats,
     memberBlindStats |->
        IF r.blind # <<>> /\ r.blind # <<"U","n","k","n","o","w","n">> /\ r.member # <<>>
        THEN addDucksGeese(acc.memberBlindStats,
                           memberBlindKey(r.member, r.blind),
                           r.totalDucks, r.totalGeese)
        ELSE acc.memberBlindStats,
     guideStats |->
        IF r.guide # <<>>
        THEN addDucksGeese(acc.guideStats, r.guide, r.totalDucks, r.totalGeese)
        ELSE acc.guideStats,
     guideMallardStats |->
        IF r.guide # <<>>
        THEN addCount(acc.guideMallardStats, r.guide, r.totalMallards)
        ELSE acc.guideMallardStats,
     speciesStats |-> addSpecies(acc.speciesStats, r.speciesKills),
     dateStats |-> addDucksGeese(acc.dateStats, r.date, r.totalDucks, r.totalGeese)]

\* filteredRecords.forEach(record => { ... })
RECURSIVE reaggregate(_, _)
reaggregate(records, acc) ==
    IF records = <<>> THEN acc
    ELSE reaggregate(Tail(records), addFiltered(acc, Head(records)))

\* the arrays and the summary both analytics and filteredAnalytics return,
\* made of the accumulators acc of a pass over records
arraysOf(acc, records, shs, totalHunts, trends) ==
    [isNull |-> FALSE,
     topMembers |-> Take(allMembersArray(acc.memberStats, records), 10),
     topMembersAvg |->
        Take(StableSort(Take(allMembersArray(acc.memberStats, records), 10),
                        ByAverageDesc), 10),
     allMembers |-> allMembersArray(acc.memberStats, records),
     topBlinds |-> topBlindsOf(acc.blindStats, acc.blindMallardStats, records),
     topBlindsAvg |->
        StableSort(topBlindsOf(acc.blindStats, acc.blindMallardStats, records),
                   ByAverageDesc),
     topSpecies |-> topSpeciesOf(acc.speciesStats),
     speciesOrder |-> speciesOrderOf(shs),
     dateTrends |-> trends,
     topGuides |-> topGuidesOf(acc.guideStats, acc.guideMallardStats, records),
     topGuidesAvg |->
        StableSort(topGuidesOf(acc.guideStats, acc.guideMallardStats, records),
                   ByAverageDesc),
     stats |-> summaryOf(totalHunts, sumDucks(acc.memberStats),
                         sumGeese(acc.memberStats), acc.totalMallards,
                         Len(records), Len(acc.blindStats))]

\* the values analytics can take: totalHunts is sheets.length
analyticsOf(acc, records, shs) ==
    {arraysOf(acc, records, shs, Len(shs), trends)
        @@ [allRecords |-> records,
            uniqueConditions |-> uniqueConditionsOf(records),
            memberBlindStats |-> acc.memberBlindStats,
            memberSpeciesStats |-> acc.memberSpeciesStats] :
     trends \in sortByDate(dateEntries(shs, acc.dateStats, records))}

\* filteredRecords
filteredRecordsOf(records, condition) ==
    IF condition = <<"a","l","l">> THEN records
    ELSE SelectSeq(records, LAMBDA r : r.condition = condition)

\* the values filteredAnalytics can take: null without a filtered record;
\* totalHunts is the number of the dates of the filtered records
filteredOf(acc, records, shs) ==
    IF Len(records) = 0 THEN {NoAnalytics}
    ELSE {arraysOf(acc, records, shs,
                   Cardinality({records[k].date : k \in 1..Len(records)}),
                   trends) :
          trends \in sortByDate(dateEntries(shs, acc.dateStats, records))}

\* filteredAnalytics for the records of analytics and a selected condition
filteredAnalyticsOf(records, condition, shs) ==
    filteredOf(reaggregate(filteredRecordsOf(records, condition), EmptyAcc),
               filteredRecordsOf(records, condition), shs)


(***************************************************************************)
(* IndividualMemberStats: the members array made of memberRecords          *)
(***************************************************************************)
\* member.hunts.filter(h => ...): the hunts of the date, by the trimmed
\* strings and then by the trimmed strings in lower case
huntsForDateOf(hunts, date) ==
    SelectSeq(hunts, LAMBDA h : \/ trim(h.date) = trim(date)
                                \/ toLowerCase(trim(h.date)) = toLowerCase(trim(date)))

\* huntsForDate.some(h => ...): a hunt whose blind is not empty, '-', '0' or
\* 'unknown'
hasValidBlind(hunts) ==
    \E k \in 1..Len(hunts) :
        /\ trim(hunts[k].blind) \notin {<<>>, <<"-">>, <<"0">>}
        /\ toLowerCase(trim(hunts[k].blind)) # <<"u","n","k","n","o","w","n">>

\* huntsForDate.reduce(...) of totalDucks, totalGeese and totalMallards
RECURSIVE huntsSum(_)
huntsSum(hunts) ==
    IF hunts = <<>> THEN [ducks |-> 0, geese |-> 0, mallards |-> 0]
    ELSE [ducks |-> Head(hunts).totalDucks + huntsSum(Tail(hunts)).ducks,
          geese |-> Head(hunts).totalGeese + huntsSum(Tail(hunts)).geese,
          mallards |-> Head(hunts).totalMallards + huntsSum(Tail(hunts)).mallards]

\* the element of dateArray made of the hunts of the member on the date: the
\* status is 'hunted' when one of them has a valid blind
memberDateOf(date, huntsForDate) ==
    IF Len(huntsForDate) > 0
    THEN [date |-> date,
          dateSort |-> parseDate(date),
          ducks |-> huntsSum(huntsForDate).ducks,
          geese |-> huntsSum(huntsForDate).geese,
          mallards |-> huntsSum(huntsForDate).mallards,
          total |-> huntsSum(huntsForDate).ducks + huntsSum(huntsForDate).geese,
          status |-> IF hasValidBlind(huntsForDate) THEN "hunted" ELSE "DNH"]
    ELSE [date |-> date,
          dateSort |-> parseDate(date),
          ducks |-> 0, geese |-> 0, mallards |-> 0, total |-> 0,
          status |-> "DNH"]

\* Array.from(allDates).map(...).sort((a, b) => a.dateSort - b.dateSort)
dateArraysOf(hunts, shs) ==
    sortByDate([k \in 1..Len(allDatesOf(shs)) |->
                   memberDateOf(allDatesOf(shs)[k],
                                huntsForDateOf(hunts, allDatesOf(shs)[k]))])

\* Object.values(memberRecords).map(member => ...) before the sort by total
RECURSIVE memberEntriesOf(_, _)
memberEntriesOf(recs, shs) ==
    IF recs = <<>> THEN {<<>>}
    ELSE {<<[name |-> Head(recs).v.name,
             totalDucks |-> Head(recs).v.totalDucks,
             totalGeese |-> Head(recs).v.totalGeese,
             total |-> Head(recs).v.totalDucks + Head(recs).v.totalGeese,
             totalHunts |-> Head(recs).v.totalHunts,
             hunts |-> Head(recs).v.hunts,
             dateArray |-> d]>> \o rest :
            d \in dateArraysOf(Head(recs).v.hunts, shs),
            rest \in memberEntriesOf(Tail(recs), shs)}

\* memberData.members: the entries sorted by total
membersArrayOf(recs, shs) ==
    {StableSort(entries, ByTotalDesc) : entries \in memberEntriesOf(recs, shs)}
(***************************************************************************)
(* IndividualMemberStats: one row of a sheet                               *)
(***************************************************************************)
\* the values a row yields in memberData, and whether it yields a hunt
memberFieldsOf(member, rowGuide, blind, guns, counts, totalMallards) ==
    [member |-> member, guide |-> rowGuide, blind |-> blind, guns |-> guns,
     totalDucks |-> counts.totalDucks, totalGeese |-> counts.totalGeese,
     speciesKills |-> counts.speciesKills,
     totalMallards |-> totalMallards,
     skipped |-> \/ member = <<>>
                 \/ toLowerCase(member) = <<"m","e","m","b","e","r">>
                 \/ includes(toLowerCase(member), <<"d","a","y"," ","t","o","t","a","l">>)
                 \/ includes(toLowerCase(member), <<"t","o","t","a","l">>),
     empty |-> counts.totalDucks = 0 /\ counts.totalGeese = 0 /\ guns = 0]

memberRowFields(sheet, row) ==
    memberFieldsOf(textCell(sheet.headers, row, memberIdx(sheet.headers)),
                   textCell(sheet.headers, row, guideIdx(sheet.headers)),
                   textCell(sheet.headers, row, blindIdx(sheet.headers)),
                   gunsCell(sheet.headers, row),
                   countSpecies(speciesCols(sheet.headers), row, NoKills),
                   mallardCell(sheet.headers, row, <<"D","r","a","k","e"," ","M","a","l","l","a","r","d">>, <<"d","r","a","k","e">>)
                       + mallardCell(sheet.headers, row, <<"H","e","n"," ","M","a","l","l","a","r","d">>, <<"h","e","n">>))

\* memberRecords[member] = { name: member, hunts: [], totalDucks: 0, ... }
newMemberRecord(member) ==
    [name |-> member, hunts |-> <<>>, totalDucks |-> 0, totalGeese |-> 0,
     totalHunts |-> 0, speciesKills |-> <<>>, blindStats |-> <<>>,
     guideStats |-> <<>>, dateStats |-> <<>>]

\* const huntRecord = { date, guide, blind: String(blind || 'Unknown'), ... }
huntRecordOf(sheet, f) ==
    [date |-> sheetDate(sheet),
     guide |-> f.guide,
     blind |-> IF f.blind = <<>> THEN <<"U","n","k","n","o","w","n">> ELSE f.blind,
     guns |-> f.guns,
     totalDucks |-> f.totalDucks,
     totalGeese |-> f.totalGeese,
     totalMallards |-> f.totalMallards,
     speciesKills |-> f.speciesKills]

\* blindStats[blindKey] of a member: ducks, geese, mallards and hunts added
addBlindUse(stats, key, f) ==
    LET old == IF HasKey(stats, key) THEN Get(stats, key)
               ELSE [ducks |-> 0, geese |-> 0, hunts |-> 0, mallards |-> 0]
    IN  Put(stats, key, [ducks |-> old.ducks + f.totalDucks,
                         geese |-> old.geese + f.totalGeese,
                         hunts |-> old.hunts + 1,
                         mallards |-> old.mallards + f.totalMallards])

\* guideStats[guide] of a member: ducks, geese and hunts added
addGuideUse(stats, key, f) ==
    LET old == IF HasKey(stats, key) THEN Get(stats, key)
               ELSE [ducks |-> 0, geese |-> 0, hunts |-> 0]
    IN  Put(stats, key, [ducks |-> old.ducks + f.totalDucks,
                         geese |-> old.geese + f.totalGeese,
                         hunts |-> old.hunts + 1])

\* the member's entry after a row that yields a hunt record
withHunt(m, sheet, f) ==
    [m EXCEPT
        !.hunts = Append(@, huntRecordOf(sheet, f)),
        !.totalDucks = @ + f.totalDucks,
        !.totalGeese = @ + f.totalGeese,
        !.totalHunts = @ + 1,
        !.speciesKills = addSpecies(@, f.speciesKills),
        !.blindStats = IF f.blind # <<>> /\ f.blind # <<"U","n","k","n","o","w","n">>
                       THEN addBlindUse(@, f.blind, f) ELSE @,
        !.guideStats = IF f.guide # <<>> THEN addGuideUse(@, f.guide, f) ELSE @,
        !.dateStats = addDucksGeese(@, sheetDate(sheet), f.totalDucks, f.totalGeese)]

(***************************************************************************)
(* The views: mounting a view and the steps of its computation             *)
(***************************************************************************)
ResetDash ==
    /\ allRecords' = <<>>
    /\ memberStats' = <<>>
    /\ blindStats' = <<>>
    /\ blindMallardStats' = <<>>
    /\ speciesStats' = <<>>
    /\ dateStats' = <<>>
    /\ guideStats' = <<>>
    /\ guideMallardStats' = <<>>
    /\ memberBlindStats' = <<>>
    /\ memberSpeciesStats' = <<>>
    /\ totalMallardsCount' = 0

ResetMembers ==
    /\ memberRecords' = <<>>
    /\ allMembers' = <<>>

\* useState('all'); analytics, filteredAnalytics and the members array are
\* not computed yet
ResetShown ==
    /\ selectedCondition' = <<"a","l","l">>
    /\ analytics' = NoAnalytics
    /\ filteredAnalytics' = NoAnalytics
    /\ membersArray' = <<>>

\* setViewMode('club-wide'): AnalyticsDashboard mounts and computes analytics
SelectClubWide ==
    /\ apc \in {"idle", "done"}
    /\ viewMode # "club-wide"
    /\ viewMode' = "club-wide"
    /\ apc' = "rows"
    /\ sheetIdx' = 1
    /\ rowIdx' = 1
    /\ ResetDash
    /\ ResetMembers
    /\ ResetShown
    /\ UNCHANGED sheets
    /\ UNCHANGED <<parserVars, loadVars>>

\* setViewMode('individual'): IndividualMemberStats mounts and computes memberData
SelectIndividual ==
    /\ apc \in {"idle", "done"}
    /\ viewMode # "individual"
    /\ viewMode' = "individual"
    /\ apc' = "rows"
    /\ sheetIdx' = 1
    /\ rowIdx' = 1
    /\ ResetDash
    /\ ResetMembers
    /\ ResetShown
    /\ UNCHANGED sheets
    /\ UNCHANGED <<parserVars, loadVars>>

\* setViewMode('table')
SelectTable ==
    /\ apc = "done"
    /\ viewMode # "table"
    /\ viewMode' = "table"
    /\ apc' = "idle"
    /\ sheetIdx' = 0
    /\ rowIdx' = 0
    /\ ResetDash
    /\ ResetMembers
    /\ ResetShown
    /\ UNCHANGED sheets
    /\ UNCHANGED <<parserVars, loadVars>>

\* what a row with the fields f adds to the accumulators of analytics
addRecord(sheet, f) ==
    IF f.skipped \/ f.empty
    THEN UNCHANGED dashVars
    ELSE /\ allRecords' = Append(allRecords, recordOf(sheet, f))
         /\ totalMallardsCount' = totalMallardsCount + f.recordMallards
         /\ memberStats' = addDucksGeese(memberStats, f.member,
                                         f.totalDucks, f.totalGeese)
         /\ memberSpeciesStats' =
               Put(memberSpeciesStats, f.member,
                   addSpecies(IF HasKey(memberSpeciesStats, f.member)
                              THEN Get(memberSpeciesStats, f.member)
                              ELSE <<>>,
                              f.speciesKills))
         /\ blindStats' = IF f.blind # <<>> /\ f.blind # <<"U","n","k","n","o","w","n">>
                          THEN addDucksGeese(blindStats, f.blind,
                                             f.totalDucks, f.totalGeese)
                          ELSE blindStats
         /\ blindMallardStats' = IF f.blind # <<>> /\ f.blind # <<"U","n","k","n","o","w","n">>
                                 THEN addCount(blindMallardStats, f.blind,
                                               f.recordMallards)
                                 ELSE blindMallardStats
         /\ memberBlindStats' =
               IF f.blind # <<>> /\ f.blind # <<"U","n","k","n","o","w","n">>
               THEN addDucksGeese(memberBlindStats,
                                  memberBlindKey(f.member, f.blind),
                                  f.totalDucks, f.totalGeese)
               ELSE memberBlindStats
         /\ guideStats' = IF f.guide # <<>>
                          THEN addDucksGeese(guideStats, f.guide,
                                             f.totalDucks, f.totalGeese)
                          ELSE guideStats
         /\ guideMallardStats' = IF f.guide # <<>>
                                 THEN addCount(guideMallardStats, f.guide,
                                               f.recordMallards)
                                 ELSE guideMallardStats
         /\ speciesStats' = addSpecies(speciesStats, f.speciesKills)
         /\ dateStats' = addDucksGeese(dateStats, sheetDate(sheet),
                                       f.totalDucks, f.totalGeese)

\* the callback of rows.forEach in analytics, for the row at rowIdx
DashboardRow ==
    /\ viewMode = "club-wide"
    /\ apc = "rows"
    /\ sheetIdx <= Len(sheets)
    /\ rowIdx <= Len(sheets[sheetIdx].rows)
    /\ addRecord(sheets[sheetIdx],
                 rowFields(sheets[sheetIdx], sheets[sheetIdx].rows[rowIdx]))
    /\ rowIdx' = rowIdx + 1
    /\ UNCHANGED <<sheets, viewMode, apc, sheetIdx, memberVars, shownVars>>
    /\ UNCHANGED <<parserVars, loadVars>>

\* memberRecords[member] before the row: the entry made for a new member
entryOf(records, member) ==
    IF HasKey(records, member) THEN Get(records, member)
    ELSE newMemberRecord(member)

\* what a row with the fields f adds to memberRecords and allMembers
addHunt(sheet, f) ==
    IF f.skipped
    THEN UNCHANGED memberVars
    ELSE /\ allMembers' = IF \E k \in 1..Len(allMembers) : allMembers[k] = f.member
                          THEN allMembers
                          ELSE Append(allMembers, f.member)
         /\ memberRecords' =
               Put(memberRecords, f.member,
                   IF f.empty THEN entryOf(memberRecords, f.member)
                   ELSE withHunt(entryOf(memberRecords, f.member), sheet, f))

\* the callback of rows.forEach in memberData, for the row at rowIdx
MemberRow ==
    /\ viewMode = "individual"
    /\ apc = "rows"
    /\ sheetIdx <= Len(sheets)
    /\ rowIdx <= Len(sheets[sheetIdx].rows)
    /\ addHunt(sheets[sheetIdx],
               memberRowFields(sheets[sheetIdx], sheets[sheetIdx].rows[rowIdx]))
    /\ rowIdx' = rowIdx + 1
    /\ UNCHANGED <<sheets, viewMode, apc, sheetIdx, dashVars, shownVars>>
    /\ UNCHANGED <<parserVars, loadVars>>

\* the end of rows.forEach: the callback of sheets.forEach returns
NextSheet ==
    /\ apc = "rows"
    /\ sheetIdx <= Len(sheets)
    /\ rowIdx > Len(sheets[sheetIdx].rows)
    /\ sheetIdx' = sheetIdx + 1
    /\ rowIdx' = 1
    /\ UNCHANGED <<sheets, viewMode, apc, dashVars, memberVars, shownVars>>
    /\ UNCHANGED <<parserVars, loadVars>>

\* the accumulators of analytics as one value
dashAcc ==
    [memberStats |-> memberStats, blindStats |-> blindStats,
     blindMallardStats |-> blindMallardStats, speciesStats |-> speciesStats,
     dateStats |-> dateStats, guideStats |-> guideStats,
     guideMallardStats |-> guideMallardStats,
     memberBlindStats |-> memberBlindStats,
     memberSpeciesStats |-> memberSpeciesStats,
     totalMallards |-> totalMallardsCount]

\* the end of sheets.forEach. In IndividualMemberStats the members array is
\* made of memberRecords. In AnalyticsDashboard the rest of the render
\* follows: the arrays and the summary of analytics, then filteredRecords and
\* filteredAnalytics for the condition selected.
SheetsDone ==
    /\ apc = "rows"
    /\ sheetIdx > Len(sheets)
    /\ apc' = "done"
    /\ IF viewMode = "club-wide"
       THEN /\ analytics' \in analyticsOf(dashAcc, allRecords, sheets)
            /\ filteredAnalytics' \in
                  filteredAnalyticsOf(allRecords, selectedCondition, sheets)
            /\ UNCHANGED membersArray
       ELSE /\ membersArray' \in membersArrayOf(memberRecords, sheets)
            /\ UNCHANGED <<analytics, filteredAnalytics>>
    /\ UNCHANGED <<sheets, viewMode, sheetIdx, rowIdx, dashVars, memberVars,
                   selectedCondition>>
    /\ UNCHANGED <<parserVars, loadVars>>

\* the values e.target.value of the condition filter takes: 'all', a condition
\* of the records, and a condition no record has (the select element lists the
\* conditions of the records; setSelectedCondition takes any value)
ConditionChoices ==
    {<<"a","l","l">>, <<"R","a","i","n","y">>, <<"S","u","n","n","y">>}

\* onChange of the condition filter: setSelectedCondition(e.target.value);
\* filteredRecords and filteredAnalytics are computed again
SelectCondition ==
    /\ viewMode = "club-wide"
    /\ apc = "done"
    /\ \E c \in ConditionChoices :
          /\ c # selectedCondition
          /\ selectedCondition' = c
          /\ filteredAnalytics' \in
                filteredAnalyticsOf(analytics.allRecords, c, sheets)
    /\ UNCHANGED <<sheets, viewMode, apc, sheetIdx, rowIdx, dashVars, memberVars,
                   analytics, membersArray>>
    /\ UNCHANGED <<parserVars, loadVars>>

\* what AnalyticsDashboard shows: filteredAnalytics || analytics
displayAnalytics ==
    IF filteredAnalytics.isNull THEN analytics ELSE filteredAnalytics

(***************************************************************************)
(* The sheets the views are applied to                                     *)
(***************************************************************************)
MaxRows == 2

\* the object with the given <<key, value>> pairs, set in this order
RECURSIVE ObjOf(_)
ObjOf(pairs) ==
    IF pairs = <<>> THEN <<>>
    ELSE Put(ObjOf(SubSeq(pairs, 1, Len(pairs) - 1)),
             pairs[Len(pairs)][1], pairs[Len(pairs)][2])

\* { name, headers, rows } of logc_tracker.json
Sheet(name, headers, rows) ==
    [name |-> name, headers |-> headers, rows |-> rows]

TrackerHeaders ==
    << <<"D","a","t","e">>, <<"2","0","2","5","-","1","1","-","1","9">>, <<"M","e","m","b","e","r">>, <<"G","u","i","d","e">>, <<"B","l","i","n","d">>, <<"G","u","n","s">>,
       <<"D","r","a","k","e"," ","M","a","l","l","a","r","d">>, <<"H","e","n"," ","M","a","l","l","a","r","d">>, <<"G","e","e","s","e">> >>

\* the rows the generated sheets are made of
RowCorpus ==
    { ObjOf(<< <<<<"M","e","m","b","e","r">>, JStr(<<"B","o","b">>)>>, <<<<"G","u","i","d","e">>, JStr(<<"T","o","m">>)>>,
               <<<<"B","l","i","n","d">>, JStr(<<"1","0">>)>>, <<<<"G","u","n","s">>, JStr(<<"1">>)>>,
               <<<<"D","r","a","k","e"," ","M","a","l","l","a","r","d">>, JStr(<<"2">>)>>, <<<<"H","e","n"," ","M","a","l","l","a","r","d">>, JStr(<<"1">>)>>,
               <<<<"G","e","e","s","e">>, JStr(<<"0">>)>> >>),
      ObjOf(<< <<<<"M","e","m","b","e","r">>, JStr(<<"D","a","y"," ","T","o","t","a","l">>)>>, <<<<"G","u","n","s">>, JStr(<<"3">>)>>,
               <<<<"D","r","a","k","e"," ","M","a","l","l","a","r","d">>, JStr(<<"5">>)>> >>),
      ObjOf(<< <<<<"M","e","m","b","e","r">>, JStr(<<"H","u","n","t","e","r"," ","T","o","t","a","l">>)>>, <<<<"B","l","i","n","d">>, JStr(<<"1","0">>)>>,
               <<<<"G","u","n","s">>, JStr(<<"2">>)>>, <<<<"G","e","e","s","e">>, JStr(<<"4">>)>> >>),
      ObjOf(<< <<<<"M","e","m","b","e","r">>, JStr(<<"M","e","m","b","e","r">>)>>, <<<<"G","u","i","d","e">>, JStr(<<"G","u","i","d","e">>)>>,
               <<<<"B","l","i","n","d">>, JStr(<<"B","l","i","n","d">>)>>, <<<<"G","u","n","s">>, JStr(<<"G","u","n","s">>)>>,
               <<<<"G","e","e","s","e">>, JStr(<<"6">>)>> >>),
      ObjOf(<< <<<<"M","e","m","b","e","r">>, JStr(<<" "," ">>)>>, <<<<"G","u","i","d","e">>, JStr(<<"T","o","m">>)>>,
               <<<<"G","u","n","s">>, JStr(<<"1">>)>>, <<<<"D","r","a","k","e"," ","M","a","l","l","a","r","d">>, JStr(<<"3">>)>> >>),
      ObjOf(<< <<<<"M","e","m","b","e","r">>, JStr(<<" ","A","l"," ">>)>>, <<<<"B","l","i","n","d">>, JNum(2)>>,
               <<<<"G","u","n","s">>, JNum(2)>> >>),
      ObjOf(<< <<<<"M","e","m","b","e","r">>, JStr(<<"A","l">>)>>, <<<<"G","u","n","s">>, JStr(<<"1">>)>>,
               <<<<"D","r","a","k","e"," ","M","a","l","l","a","r","d">>, JStr(<<"-","2">>)>> >>),
      ObjOf(<< <<<<"M","e","m","b","e","r">>, JStr(<<"C","y">>)>>, <<<<"G","u","i","d","e">>, JStr(<<"T","o","m">>)>>,
               <<<<"G","u","n","s">>, JStr(<<"-","1">>)>>, <<<<"G","e","e","s","e">>, JStr(<<"3">>)>> >>),
      ObjOf(<< <<<<"M","e","m","b","e","r">>, JStr(<<"B","o","b">>)>>, <<<<"B","l","i","n","d">>, JStr(<<"2">>)>>,
               <<<<"G","u","n","s">>, JStr(<<"0">>)>>, <<<<"D","r","a","k","e"," ","M","a","l","l","a","r","d">>, JStr(<<"0">>)>>,
               <<<<"G","e","e","s","e">>, JNull>> >>),
      ObjOf(<< <<<<"D","a","t","e">>, JStr(<<"C","o","n","d","i","t","i","o","n","s">>)>>, <<<<"2","0","2","5","-","1","1","-","1","9">>, JStr(<<"R","a","i","n","y">>)>> >>),
      ObjOf(<< <<<<"M","e","m","b","e","r">>, JStr(<<"C","y">>)>>, <<<<"B","l","i","n","d">>, JStr(<<"U","n","k","n","o","w","n">>)>>,
               <<<<"G","u","n","s">>, JStr(<<"x">>)>>, <<<<"H","e","n"," ","M","a","l","l","a","r","d">>, JStr(<<"x">>)>>,
               <<<<"G","e","e","s","e">>, JStr(<<"2">>)>> >>) }

GeneratedSheets ==
    {<<Sheet(<<"1","1","_","1","9","_","2","5">>, TrackerHeaders, rs)>> : rs \in SeqsUpTo(RowCorpus, MaxRows)}

\* Scenario A and Scenario B, most recent sheet first
ScenarioSheets ==
    << Sheet(<<"1","1","_","2","0","_","2","5">>, TrackerHeaders,
             << ObjOf(<< <<<<"M","e","m","b","e","r">>, JStr(<<"D","a","y"," ","T","o","t","a","l">>)>> >>) >>),
       Sheet(<<"1","1","_","1","9","_","2","5">>, TrackerHeaders,
             << ObjOf(<< <<<<"M","e","m","b","e","r">>, JStr(<<"B","o","b">>)>>, <<<<"D","r","a","k","e"," ","M","a","l","l","a","r","d">>, JStr(<<"2">>)>>,
                         <<<<"H","e","n"," ","M","a","l","l","a","r","d">>, JStr(<<"1">>)>>, <<<<"G","e","e","s","e">>, JStr(<<"0">>)>>,
                         <<<<"G","u","n","s">>, JStr(<<"1">>)>> >>) >>) >>

\* a sheet without a member column
NoMemberSheet ==
    Sheet(<<"1","1","_","2","1","_","2","5">>, << <<"N","a","m","e">>, <<"G","u","n","s">>, <<"G","e","e","s","e">> >>,
          << ObjOf(<< <<<<"N","a","m","e">>, JStr(<<"B","o","b">>)>>, <<<<"G","u","n","s">>, JStr(<<"1">>)>>,
                      <<<<"G","e","e","s","e">>, JStr(<<"2">>)>> >>),
             ObjOf(<< <<<<"N","a","m","e">>, JStr(<<"D","a","y"," ","T","o","t","a","l">>)>>, <<<<"G","e","e","s","e">>, JStr(<<"2">>)>> >>) >>)

\* a sheet without a member column and with a column named 'undefined'
UndefinedSheet ==
    Sheet(<<"1","1","_","2","3","_","2","5">>, << <<"u","n","d","e","f","i","n","e","d">>, <<"G","u","n","s">>, <<"G","e","e","s","e">> >>,
          << ObjOf(<< <<<<"u","n","d","e","f","i","n","e","d">>, JStr(<<"Z","e","d">>)>>, <<<<"G","u","n","s">>, JStr(<<"1">>)>>,
                      <<<<"G","e","e","s","e">>, JStr(<<"2">>)>> >>) >>)

\* a sheet whose headers name the roles in other words, and an unnamed sheet
VariantSheets ==
    << Sheet(<<"2","0","2","5","-","1","1","-","2","2">>,
             << <<"H","u","n","t","e","r","/","M","e","m","b","e","r"," ","N","a","m","e">>, <<"G","u","i","d","e">>, <<"B","l","i","n","d"," ","#">>, <<"#"," ","G","u","n","s">>,
                <<"d","r","a","k","e"," ","m","a","l","l","a","r","d">>, <<"C","a","n","a","d","a"," ","G","e","e","s","e">>, <<"M","a","l","l","a","r","d"," ","D","a","y"," ","T","o","t","a","l">> >>,
             << ObjOf(<< <<<<"H","u","n","t","e","r","/","M","e","m","b","e","r"," ","N","a","m","e">>, JStr(<<"C","y">>)>>, <<<<"B","l","i","n","d"," ","#">>, JNum(3)>>,
                         <<<<"#"," ","G","u","n","s">>, JNum(2)>>, <<<<"d","r","a","k","e"," ","m","a","l","l","a","r","d">>, JNum(4)>>,
                         <<<<"C","a","n","a","d","a"," ","G","e","e","s","e">>, JStr(<<"1">>)>>,
                         <<<<"M","a","l","l","a","r","d"," ","D","a","y"," ","T","o","t","a","l">>, JStr(<<"9">>)>> >>) >>),
       Sheet(<<>>, TrackerHeaders,
             << ObjOf(<< <<<<"M","e","m","b","e","r">>, JStr(<<"B","o","b">>)>>, <<<<"G","u","n","s">>, JStr(<<"1">>)>> >>) >>) >>

\* a row of a member with a guide, a blind and a count of geese
HuntRow(member, rowGuide, blind, geese) ==
    ObjOf(<< <<<<"M","e","m","b","e","r">>, JStr(member)>>, <<<<"G","u","i","d","e">>, JStr(rowGuide)>>,
             <<<<"B","l","i","n","d">>, JStr(blind)>>, <<<<"G","u","n","s">>, JStr(<<"1">>)>>,
             <<<<"G","e","e","s","e">>, JStr(geese)>> >>)

\* the row that holds the condition of a sheet
ConditionRow(condition) ==
    ObjOf(<< <<<<"D","a","t","e">>, JStr(<<"C","o","n","d","i","t","i","o","n","s">>)>>, <<<<"2","0","2","5","-","1","1","-","1","9">>, JStr(condition)>> >>)

DayTotalRow ==
    ObjOf(<< <<<<"M","e","m","b","e","r">>, JStr(<<"D","a","y"," ","T","o","t","a","l">>)>>, <<<<"G","e","e","s","e">>, JStr(<<"9">>)>> >>)

\* sheets of several dates and conditions, a sheet without a hunt among
\* them, a sheet of the blinds '10' and '2' with the same counts, and sheets
\* with two condition rows and with a date as the condition
SeasonSheets ==
    { << Sheet(<<"1","1","_","2","1","_","2","5">>, TrackerHeaders,
               << ConditionRow(<<"S","u","n","n","y">>), HuntRow(<<"B","o","b">>, <<"T","o","m">>, <<"1","0">>, <<"2">>),
                  HuntRow(<<"C","y">>, <<"U","n","k","n","o","w","n">>, <<"2">>, <<"3">>) >>),
         Sheet(<<"1","1","_","2","0","_","2","5">>, TrackerHeaders, << DayTotalRow >>),
         Sheet(<<"1","1","_","1","9","_","2","5">>, TrackerHeaders,
               << ConditionRow(<<"R","a","i","n","y">>), HuntRow(<<"B","o","b">>, <<"T","o","m">>, <<"2">>, <<"1">>) >>) >>,
      << Sheet(<<"1","1","_","2","1","_","2","5">>, TrackerHeaders,
               << ConditionRow(<<"S","u","n","n","y">>), HuntRow(<<"B","o","b">>, <<"T","o","m">>, <<"1","0">>, <<"2">>),
                  HuntRow(<<"B","o","b">>, <<>>, <<>>, <<"4">>) >>),
         Sheet(<<"1","1","_","2","0","_","2","5">>, TrackerHeaders, << ConditionRow(<<"S","u","n","n","y">>), DayTotalRow >>) >>,
      << Sheet(<<"1","1","_","1","9","_","2","5">>, TrackerHeaders, << HuntRow(<<"B","o","b">>, <<"T","o","m">>, <<"1","0">>, <<"2">>) >>),
         Sheet(<<"1","1","_","1","9","_","2","5">>, TrackerHeaders, << HuntRow(<<"C","y">>, <<"T","o","m">>, <<"1","0">>, <<"1">>) >>) >>,
      << Sheet(<<"1","1","_","2","5","_","2","5">>, TrackerHeaders,
               << HuntRow(<<"B","o","b">>, <<"T","o","m">>, <<"1","0">>, <<"2">>),
                  HuntRow(<<"C","y">>, <<"A","n","n">>, <<"2">>, <<"2">>) >>) >>,
      << Sheet(<<"1","1","_","2","7","_","2","5">>, TrackerHeaders,
               << HuntRow(<<"B","o","b">>, <<"T","o","m">>, <<"1","0">>, <<"2">>), ConditionRow(<<" ","F","o","g","g","y"," ">>),
                  ConditionRow(<<"S","u","n","n","y">>) >>),
         Sheet(<<"1","1","_","2","6","_","2","5">>, TrackerHeaders,
               << ConditionRow(<<"2","0","2","5","-","1","1","-","2","6">>), HuntRow(<<"C","y">>, <<"T","o","m">>, <<"1","0">>, <<"1">>) >>) >> }

\* sheets whose names are dates in both forms, no dates, empty or 'Unknown'
NamedSheets ==
    { << Sheet(<<"1","1","_","2","0","_","2","5">>, TrackerHeaders, << HuntRow(<<"B","o","b">>, <<"T","o","m">>, <<"1","0">>, <<"2">>) >>),
         Sheet(<<"2","0","2","5","-","1","1","-","1","9">>, TrackerHeaders, << HuntRow(<<"C","y">>, <<"T","o","m">>, <<"2">>, <<"1">>) >>),
         Sheet(<<"N","o","t","e","s">>, TrackerHeaders, << HuntRow(<<"A","l">>, <<"A","n","n">>, <<"3">>, <<"5">>) >>) >>,
      << Sheet(<<"1","1","_","1","9","_","2","5">>, TrackerHeaders, << HuntRow(<<"B","o","b">>, <<"T","o","m">>, <<"1","0">>, <<"2">>) >>),
         Sheet(<<"N","o","t","e","s">>, TrackerHeaders, << DayTotalRow >>) >>,
      << Sheet(<<"1","2","_","0","1","_","2","5">>, TrackerHeaders, << DayTotalRow >>),
         Sheet(<<"U","n","k","n","o","w","n">>, TrackerHeaders, << HuntRow(<<"B","o","b">>, <<"T","o","m">>, <<"1","0">>, <<"2">>) >>) >>,
      << Sheet(<<"T","e","m","p","l","a","t","e"," ","2">>, TrackerHeaders, << DayTotalRow >>),
         Sheet(<<"1","1","_","1","9","_","2","5">>, TrackerHeaders, << HuntRow(<<"B","o","b">>, <<"T","o","m">>, <<"1","0">>, <<"2">>) >>),
         Sheet(<<"1","_","0","5","_","2","6">>, TrackerHeaders, << HuntRow(<<"C","y">>, <<"T","o","m">>, <<"1","0">>, <<"1">>) >>) >> }

\* a sheet of six guides: four with one hunt of ten geese, one with two hunts
\* of three, one with one hunt of five
GuideSheet ==
    Sheet(<<"1","1","_","2","4","_","2","5">>, TrackerHeaders,
          << HuntRow(<<"M","1">>, <<"A","n","n">>, <<"1">>, <<"1","0">>), HuntRow(<<"M","2">>, <<"B","e","n">>, <<"1">>, <<"1","0">>),
             HuntRow(<<"M","3">>, <<"C","a","l">>, <<"1">>, <<"1","0">>), HuntRow(<<"M","4">>, <<"D","e","e">>, <<"1">>, <<"1","0">>),
             HuntRow(<<"M","5">>, <<"E","v","e">>, <<"1">>, <<"3">>), HuntRow(<<"M","6">>, <<"E","v","e">>, <<"1">>, <<"3">>),
             HuntRow(<<"M","7">>, <<"F","a","y">>, <<"1">>, <<"5">>) >>)

\* the sheets of logc_tracker.json
SheetLists ==
    GeneratedSheets
        \cup {ScenarioSheets, <<NoMemberSheet>>, <<UndefinedSheet>>, VariantSheets,
              <<GuideSheet>>}
        \cup SeasonSheets \cup NamedSheets

\* parseDate of loadExcelJson: a name that is no date is the epoch; a name of
\* three parts MM_DD_YY goes to new Date unchecked
appParseDate(dateStr) ==
    LET parts == splitChar(dateStr, "_")
        iso == isoDateTime(dateStr)
    IN  IF includes(dateStr, <<"_">>) /\ Len(parts) = 3
        THEN partsDateTime(parseInt(parts[1]), parseInt(parts[2]),
                           parseInt(parts[3]))
        ELSE IF iso.nan THEN [nan |-> FALSE, n |-> 0] ELSE iso

\* (a, b) => parseDate(b.name) - parseDate(a.name) is negative
ByNameDesc(a, b) ==
    /\ ~appParseDate(a.name).nan
    /\ ~appParseDate(b.name).nan
    /\ appParseDate(a.name).n > appParseDate(b.name).n

ConsistentByName(s) ==
    \A a, b, c \in 1..Len(s) :
        (/\ ~ByNameDesc(s[a], s[b]) /\ ~ByNameDesc(s[b], s[a])
         /\ ~ByNameDesc(s[b], s[c]) /\ ~ByNameDesc(s[c], s[b]))
            => (~ByNameDesc(s[a], s[c]) /\ ~ByNameDesc(s[c], s[a]))

\* the filter of loadExcelJson: no template and no TODO sheets
isDataSheet(sheet) ==
    /\ ~includes(toLowerCase(sheet.name), <<"s","h","e","e","t","3">>)
    /\ ~includes(toLowerCase(sheet.name), <<"t","e","m","p","l","a","t","e">>)
    /\ ~includes(toLowerCase(sheet.name), <<"t","o","d","o">>)

\* the values of excelSheets loadExcelJson can set for the sheets of the file
loadExcelJson(jsonSheets) ==
    IF ConsistentByName(SelectSeq(jsonSheets, isDataSheet))
    THEN {StableSort(SelectSeq(jsonSheets, isDataSheet), ByNameDesc)}
    ELSE Orders(SelectSeq(jsonSheets, isDataSheet))

\* the lists of sheets the views are given: App shows them for a list that
\* is not empty
LoadedSheets ==
    {l \in UNION {loadExcelJson(js) : js \in SheetLists} : Len(l) > 0}

AnalyticsInit ==
    /\ sheets \in LoadedSheets
    /\ viewMode = "table"
    /\ apc = "idle"
    /\ sheetIdx = 0
    /\ rowIdx = 0
    /\ allRecords = <<>>
    /\ memberStats = <<>>
    /\ blindStats = <<>>
    /\ blindMallardStats = <<>>
    /\ speciesStats = <<>>
    /\ dateStats = <<>>
    /\ guideStats = <<>>
    /\ guideMallardStats = <<>>
    /\ memberBlindStats = <<>>
    /\ memberSpeciesStats = <<>>
    /\ totalMallardsCount = 0
    /\ memberRecords = <<>>
    /\ allMembers = <<>>
    /\ selectedCondition = <<"a","l","l">>
    /\ analytics = NoAnalytics
    /\ filteredAnalytics = NoAnalytics
    /\ membersArray = <<>>
    /\ ParserIdle
    /\ data = <<>>
    /\ loading = FALSE
    /\ error = JNull
    /\ tablesByDate = <<>>
    /\ selectedDate = <<>>
    /\ excelSheets = sheets
    /\ selectedSheet = sheets[1].name
    /\ initPc = "done"
    /\ csvPath = 0
    /\ reader = Idle
    /\ papa = Idle
    /\ uploads = 0
    /\ excelLoaded = "yes"
    /\ csvStarted = FALSE
    /\ parsedTexts = {}
    /\ lastLoad = "none"

AnalyticsNext ==
    \/ SelectClubWide
    \/ SelectIndividual
    \/ SelectTable
    \/ DashboardRow
    \/ MemberRow
    \/ NextSheet
    \/ SheetsDone
    \/ SelectCondition

(***************************************************************************)
(* App: the load of the data (App.jsx)                                     *)
(***************************************************************************)
\* parseOCRToTable(text).metadata.date of the heuristic path: every return
\* after the scan carries foundDate, the group of the last line that matched
\* datePattern (the first test of the scan loop)
RECURSIVE foundDateOf(_, _)
foundDateOf(ls, date) ==
    IF ls = <<>> THEN date
    ELSE foundDateOf(Tail(ls), IF datePattern(Head(ls)).ok
                               THEN JStr(datePattern(Head(ls)).g1)
                               ELSE date)

\* parsed.metadata && parsed.metadata.date for parsed = parseOCRToTable(text):
\* no metadata for the empty text, the metadata of the document on the JSON
\* path, foundDate otherwise
metadataDate(text) ==
    IF text = <<>> THEN JUndef
    ELSE IF jsonFastPath(text).ok
    THEN (IF jsonFastPath(text).table.metadata.t = "obj"
          THEN Get(jsonFastPath(text).table.metadata.o, <<"d","a","t","e">>)
          ELSE JUndef)
    ELSE foundDateOf(splitLines(text), JNull)

\* row.text || ''
textOf(row) ==
    Or(Get(row, <<"t","e","x","t">>), JStr(<<>>))

\* Object.values(row).some(val => val && String(val).trim().length > 0)
hasContent(row) ==
    \E j \in 1..Len(row) : Truthy(row[j].v) /\ trim(ToStr(row[j].v)) # <<>>

\* !String(row.text || '').startsWith('ERROR:')
isNotError(row) ==
    ~startsWith(ToStr(textOf(row)), <<"E","R","R","O","R",":">>)

isValidRow(row) ==
    hasContent(row) /\ isNotError(row)

\* results.data.filter(...)
validDataOf(rows) ==
    SelectSeq(rows, isValidRow)

\* (parsed.metadata && parsed.metadata.date) || row.filename || 'Unknown', as
\* the property key byDate[dateKey] makes of it
dateKeyOf(row) ==
    ToStr(Or(Or(metadataDate(ToStr(textOf(row))), Get(row, <<"f","i","l","e","n","a","m","e">>)),
             JStr(<<"U","n","k","n","o","w","n">>)))

\* names byDate = {} inherits from Object.prototype: byDate[name] is truthy
\* and has no push
ObjectPrototypeKeys ==
    { <<"c","o","n","s","t","r","u","c","t","o","r">>, <<"t","o","S","t","r","i","n","g">>, <<"v","a","l","u","e","O","f">>, <<"h","a","s","O","w","n","P","r","o","p","e","r","t","y">>, <<"_","_","p","r","o","t","o","_","_">> }

\* validData.forEach(row => { ... byDate[dateKey].push(row) }) from row k on:
\* the groups, the number of rows parseOCRToTable was given, and whether
\* push threw a TypeError
RECURSIVE groupByDate(_, _, _)
\* byDate[dateKey] of a name that byDate inherits has no push
pushThrows(byDate, dateKey) ==
    ~HasKey(byDate, dateKey) /\ dateKey \in ObjectPrototypeKeys

\* if (!byDate[dateKey]) byDate[dateKey] = []; byDate[dateKey].push(row)
pushRow(byDate, dateKey, row) ==
    Put(byDate, dateKey,
        Append(IF HasKey(byDate, dateKey) THEN Get(byDate, dateKey) ELSE <<>>, row))

groupByDate(rows, k, byDate) ==
    IF k > Len(rows)
    THEN [threw |-> FALSE, byDate |-> byDate, parsed |-> Len(rows)]
    ELSE IF pushThrows(byDate, dateKeyOf(rows[k]))
    THEN [threw |-> TRUE, byDate |-> byDate, parsed |-> k]
    ELSE groupByDate(rows, k + 1, pushRow(byDate, dateKeyOf(rows[k]), rows[k]))

\* err.type !== 'Quotes' && err.type !== 'Delimiter'
isCritical(err) ==
    err.type \notin {"Quotes", "Delimiter"}

\* criticalErrors.map(e => e.message).join(', ')
RECURSIVE joinMessages(_)
joinMessages(errs) ==
    IF errs = <<>> THEN <<>>
    ELSE IF Len(errs) = 1 THEN errs[1].message
    ELSE errs[1].message \o <<","," ">> \o joinMessages(Tail(errs))

\* the check of parseCSV and of loadDefaultCSV on the start of a text
startsAsHtml(text) ==
    startsWith(trim(text), <<"<","!","D","O","C","T","Y","P","E">>) \/ startsWith(trim(text), <<"<","h","t","m","l">>)

startsAsMarkup(text) ==
    startsAsHtml(text) \/ startsWith(trim(text), <<"<","?","x","m","l">>)

\* loadExcelJson: the value it returns for a response and, where it is TRUE,
\* the values setExcelSheets can be given. fetch or response.json() rejecting
\* is caught and gives FALSE.
excelJsonLoads(response) ==
    /\ response.status = "ok"
    /\ response.json = "sheets"
    /\ Len(response.sheets) > 0
    /\ Len(SelectSeq(response.sheets, isDataSheet)) > 0

\* parseCSV up to the call of Papa.parse, which answers in complete or error
parseCSV(file, caller) ==
    IF startsAsMarkup(file.text)
    THEN /\ error' = JStr(<<"I","n","v","a","l","i","d"," ","f","i","l","e",":"," ","T","h","i","s"," ","a","p","p","e","a","r","s"," ","t","o"," ","b","e"," ","a","n"," ","H","T","M","L","/","X","M","L"," ","f","i","l","e",","," ","n","o","t"," ","a"," ","C","S","V"," ","f","i","l","e",".">>)
         /\ loading' = FALSE
         /\ papa' = Idle
         /\ lastLoad' = "rejected"
    ELSE /\ error' = JNull
         /\ loading' = TRUE
         /\ papa' = [busy |-> TRUE, file |-> file, caller |-> caller]
         /\ lastLoad' = "parsing"

\* init: const excelLoaded = await loadExcelJson()
LoadExcelJson(response) ==
    /\ initPc = "mount"
    /\ ~papa.busy
    /\ IF excelJsonLoads(response)
       THEN /\ excelSheets' \in loadExcelJson(response.sheets)
            /\ selectedSheet' = excelSheets'[1].name
            /\ excelLoaded' = "yes"
            /\ initPc' = "done"
       ELSE /\ excelLoaded' = "no"
            /\ initPc' = "excelDone"
            /\ UNCHANGED <<excelSheets, selectedSheet>>
    /\ UNCHANGED <<data, loading, error, tablesByDate, selectedDate, csvPath,
                   reader, papa, uploads, csvStarted, parsedTexts, lastLoad>>
    /\ UNCHANGED <<parserVars, analyticsVars>>

\* init: if (!excelLoaded) await loadDefaultCSV()
LoadDefaultCSV ==
    /\ initPc = "excelDone"
    /\ ~papa.busy
    /\ initPc' = "csv"
    /\ csvPath' = 1
    /\ csvStarted' = TRUE
    /\ UNCHANGED <<appStateVars, reader, papa, uploads, excelLoaded, parsedTexts,
                   lastLoad>>
    /\ UNCHANGED <<parserVars, analyticsVars>>

\* the next turn of for (const path of csvPaths), the end of init after the
\* last path
nextPath ==
    IF csvPath < 3
    THEN initPc' = "csv" /\ csvPath' = csvPath + 1
    ELSE initPc' = "done" /\ csvPath' = 0

\* loadDefaultCSV: one turn of the loop over csvPaths
FetchCsv(response) ==
    /\ initPc = "csv"
    /\ ~papa.busy
    /\ IF /\ response.status = "ok"
          /\ ~startsAsHtml(response.file.text)
          /\ \/ response.isCSV
             \/ includes(response.file.text, <<",">>)
             \/ includes(response.file.text, <<"f","i","l","e","n","a","m","e">>)
       THEN /\ parseCSV(response.file, "default")
            /\ IF startsAsMarkup(response.file.text)
               THEN initPc' = "done" /\ csvPath' = 0
               ELSE UNCHANGED <<initPc, csvPath>>
       ELSE /\ nextPath
            /\ UNCHANGED <<error, loading, papa, lastLoad>>
    /\ UNCHANGED <<data, tablesByDate, selectedDate, excelSheets, selectedSheet,
                   reader, uploads, excelLoaded, csvStarted, parsedTexts>>
    /\ UNCHANGED <<parserVars, analyticsVars>>

\* handleFileUpload(file): reader.readAsText(file)
HandleFileUpload(file) ==
    /\ uploads < MaxUploads
    /\ ~papa.busy
    /\ ~reader.busy
    /\ reader' = [busy |-> TRUE, file |-> file, caller |-> "upload"]
    /\ uploads' = uploads + 1
    /\ UNCHANGED <<appStateVars, initPc, csvPath, papa, excelLoaded, csvStarted,
                   parsedTexts, lastLoad>>
    /\ UNCHANGED <<parserVars, analyticsVars>>

\* reader.onload: parseCSV(e.target.result)
ReaderOnLoad ==
    /\ reader.busy
    /\ ~reader.file.unreadable
    /\ ~papa.busy
    /\ parseCSV(reader.file, "upload")
    /\ reader' = Idle
    /\ UNCHANGED <<data, tablesByDate, selectedDate, excelSheets, selectedSheet,
                   initPc, csvPath, uploads, excelLoaded, csvStarted, parsedTexts>>
    /\ UNCHANGED <<parserVars, analyticsVars>>

\* reader.onerror
ReaderOnError ==
    /\ reader.busy
    /\ reader.file.unreadable
    /\ ~papa.busy
    /\ error' = JStr(<<"F","a","i","l","e","d"," ","t","o"," ","r","e","a","d"," ","f","i","l","e">>)
    /\ loading' = FALSE
    /\ reader' = Idle
    /\ lastLoad' = "readError"
    /\ UNCHANGED <<data, tablesByDate, selectedDate, excelSheets, selectedSheet,
                   initPc, csvPath, papa, uploads, excelLoaded, csvStarted,
                   parsedTexts>>
    /\ UNCHANGED <<parserVars, analyticsVars>>

\* where loadDefaultCSV goes on after parseCSV: return, or the catch of the
\* loop where complete threw
afterParse(threw) ==
    IF papa.caller = "default"
    THEN (IF threw THEN nextPath ELSE initPc' = "done" /\ csvPath' = 0)
    ELSE UNCHANGED <<initPc, csvPath>>

\* the body of complete for the rows with content that are no errors, their
\* groups, and the errors that are no warnings
completeWith(results, criticalErrors, validData, grouped) ==
    /\ error' =
          IF Len(results.data) = 0
          THEN JStr(<<"N","o"," ","v","a","l","i","d"," ","d","a","t","a"," ","f","o","u","n","d"," ","i","n"," ","C","S","V"," ","f","i","l","e">>)
          ELSE IF Len(criticalErrors) > 0
          THEN JStr(<<"C","S","V"," ","p","a","r","s","i","n","g"," ","e","r","r","o","r","s",":"," ">> \o joinMessages(criticalErrors))
          ELSE error
    /\ data' = IF Len(results.data) > 0 THEN validData ELSE data
    /\ parsedTexts' = IF Len(results.data) > 0
                      THEN {ToStr(textOf(validData[k])) : k \in 1..grouped.parsed}
                      ELSE {}
    /\ tablesByDate' = IF Len(results.data) > 0 /\ ~grouped.threw
                       THEN grouped.byDate ELSE tablesByDate
    /\ selectedDate' = IF Len(results.data) > 0 /\ ~grouped.threw /\ grouped.byDate # <<>>
                       THEN Keys(grouped.byDate)[1] ELSE selectedDate
    /\ loading' = IF Len(results.data) > 0 /\ grouped.threw THEN loading ELSE FALSE
    /\ lastLoad' = IF Len(results.data) > 0 /\ grouped.threw THEN "threw" ELSE "complete"
    /\ afterParse(Len(results.data) > 0 /\ grouped.threw)

\* complete: (results) => { ... } of parseCSV. Papa.parse of a string calls
\* it before it returns; an exception of it leaves parseCSV.
PapaComplete ==
    /\ papa.busy
    /\ ~papa.file.fails
    /\ completeWith([data |-> papa.file.rows, errors |-> papa.file.errors],
                    SelectSeq(papa.file.errors, isCritical),
                    validDataOf(papa.file.rows),
                    groupByDate(validDataOf(papa.file.rows), 1, <<>>))
    /\ papa' = Idle
    /\ UNCHANGED <<excelSheets, selectedSheet, reader, uploads, excelLoaded,
                   csvStarted>>
    /\ UNCHANGED <<parserVars, analyticsVars>>

\* error: (error) => { ... } of parseCSV
PapaError ==
    /\ papa.busy
    /\ papa.file.fails
    /\ error' = JStr(<<"F","a","i","l","e","d"," ","t","o"," ","p","a","r","s","e"," ","C","S","V",":"," ">> \o <<"r","e","a","d"," ","f","a","i","l","e","d">>)
    /\ loading' = FALSE
    /\ lastLoad' = "error"
    /\ afterParse(FALSE)
    /\ papa' = Idle
    /\ UNCHANGED <<data, tablesByDate, selectedDate, excelSheets, selectedSheet,
                   reader, uploads, excelLoaded, csvStarted, parsedTexts>>
    /\ UNCHANGED <<parserVars, analyticsVars>>

(***************************************************************************)
(* App: the files and responses of the load                                *)
(***************************************************************************)
\* a row of results.data: header: true gives an object keyed by the trimmed
\* headers, transform gives trimmed values
CsvRow(filename, text) ==
    ObjOf(<< <<<<"f","i","l","e","n","a","m","e">>, JStr(filename)>>, <<<<"t","e","x","t">>, JStr(text)>> >>)

\* rows: a GPT document with a date, a text with a date line, a failed OCR, an
\* empty row, a row with neither date nor filename, a row without a date, and
\* a row whose filename is a property of Object.prototype
GptRow == CsvRow(<<"a",".","j","p","g">>, <<"{","\"","h","e","a","d","e","r","s","\"",":","[","]",",","\"","r","o","w","s","\"",":","[","]",",","\"","m","e","t","a","d","a","t","a","\"",":","{","\"","d","a","t","e","\"",":","\"","1","1","/","1","9","\"","}","}">>)

DatedRow == CsvRow(<<"b",".","j","p","g">>, <<"D","a","t","e",":"," ","N","o","v"," ","1","9","\n","1"," ","J","o"," ","R","o">>)

ErrorRow == CsvRow(<<"c",".","j","p","g">>, <<"E","R","R","O","R",":"," ","t","i","m","e","o","u","t">>)

EmptyRow == CsvRow(<<>>, <<>>)

UnknownRow == CsvRow(<<>>, <<"T","o","t","a","l">>)

PlainRow == CsvRow(<<"d",".","j","p","g">>, <<"e","r","r","o","r",":"," ","b","l","u","r","r","e","d">>)

ProtoRow == CsvRow(<<"c","o","n","s","t","r","u","c","t","o","r">>, <<"2"," ","A","l"," ","R","o","e">>)

\* a file: the start of its text, and what Papa.parse makes of it (the rows
\* and errors given to complete, or the call of error); unreadable for a
\* file the FileReader fails on
CsvFile(text, rows, errors) ==
    [text |-> text, rows |-> rows, errors |-> errors, fails |-> FALSE,
     unreadable |-> FALSE]

PapaErrors ==
    { << [type |-> "Quotes", message |-> <<"Q","u","o","t","e","d"," ","f","i","e","l","d"," ","u","n","t","e","r","m","i","n","a","t","e","d">>] >>,
      << [type |-> "FieldMismatch", message |-> <<"T","o","o"," ","f","e","w"," ","f","i","e","l","d","s">>],
         [type |-> "Quotes", message |-> <<"T","r","a","i","l","i","n","g"," ","q","u","o","t","e">>],
         [type |-> "FieldMismatch", message |-> <<"T","o","o"," ","m","a","n","y"," ","f","i","e","l","d","s">>] >> }

CsvRowLists ==
    { << GptRow, DatedRow >>,
      << ErrorRow, DatedRow, EmptyRow, UnknownRow >>,
      << ErrorRow >>,
      << PlainRow, UnknownRow, PlainRow >>,
      << DatedRow, ProtoRow, GptRow >> }

CsvFiles ==
    {CsvFile(<<"f","i","l","e","n","a","m","e",",","t","e","x","t">>, rows, <<>>) : rows \in CsvRowLists}
        \cup {CsvFile(<<"f","i","l","e","n","a","m","e",",","t","e","x","t">>, << PlainRow >>, errs) : errs \in PapaErrors}
        \cup {CsvFile(<<"t","e","x","t">>, <<>>, << [type |-> "Delimiter", message |-> <<"U","n","a","b","l","e"," ","t","o"," ","a","u","t","o","-","d","e","t","e","c","t">>] >>)}

MarkupFiles ==
    { CsvFile(<<" ","<","!","D","O","C","T","Y","P","E"," ","h","t","m","l",">">>, <<>>, <<>>),
      CsvFile(<<"<","h","t","m","l"," ","l","a","n","g","=","\"","e","n","\"",">">>, <<>>, <<>>),
      CsvFile(<<"<","?","x","m","l"," ","v","e","r","s","i","o","n","=","\"","1",".","0","\"","?",">">>, <<>>, <<>>) }

FailingFile ==
    [CsvFile(<<"f","i","l","e","n","a","m","e",",","t","e","x","t">>, <<>>, <<>>) EXCEPT !.fails = TRUE]

UnreadableFile ==
    [CsvFile(<<>>, <<>>, <<>>) EXCEPT !.unreadable = TRUE]

UploadFiles ==
    CsvFiles \cup MarkupFiles \cup {FailingFile, UnreadableFile}

\* the answers of fetch(path): a rejection, a status that is not ok, or a
\* body with its content type
CsvResponses ==
    { [status |-> "throws", isCSV |-> FALSE, file |-> NoFile],
      [status |-> "notok", isCSV |-> TRUE, file |-> CsvFile(<<"f","i","l","e","n","a","m","e",",","t","e","x","t">>, <<>>, <<>>)],
      [status |-> "ok", isCSV |-> FALSE, file |-> CsvFile(<<"N","o","t"," ","F","o","u","n","d">>, <<>>, <<>>)] }
        \cup {[status |-> "ok", isCSV |-> c, file |-> f] :
                 c \in BOOLEAN, f \in CsvFiles \cup MarkupFiles \cup {FailingFile}}

NamedSheet(name) ==
    Sheet(name, <<>>, <<>>)

\* the answers of fetch('logc_tracker.json'): json is "sheets" for a document
\* whose sheets is an array
TrackerResponses ==
    { [status |-> "throws", json |-> "none", sheets |-> <<>>],
      [status |-> "notok", json |-> "none", sheets |-> <<>>],
      [status |-> "ok", json |-> "invalid", sheets |-> <<>>],
      [status |-> "ok", json |-> "null", sheets |-> <<>>],
      [status |-> "ok", json |-> "noSheets", sheets |-> <<>>],
      [status |-> "ok", json |-> "notArray", sheets |-> <<>>] }
        \cup {[status |-> "ok", json |-> "sheets", sheets |-> l] :
                 l \in { <<>>,
                         << NamedSheet(<<"T","e","m","p","l","a","t","e">>) >>,
                         << NamedSheet(<<"S","h","e","e","t","3">>), NamedSheet(<<"1","1","_","2","1","_","2","5"," ","T","O","D","O">>) >>,
                         << NamedSheet(<<"1","1","_","1","9","_","2","5">>) >>,
                         << NamedSheet(<<"1","1","_","1","9","_","2","5">>), NamedSheet(<<"1","1","_","2","0","_","2","5">>) >>,
                         << NamedSheet(<<"1","1","_","2","0","_","2","5">>), NamedSheet(<<"t","e","m","p","l","a","t","e">>),
                            NamedSheet(<<"1","1","_","1","9","_","2","5">>) >>,
                         << NamedSheet(<<"N","o","t","e","s">>), NamedSheet(<<"1","1","_","1","9","_","2","5">>) >>,
                         << NamedSheet(<<"1","1","_","1","9","_","2","5">>), NamedSheet(<<"S","e","a","s","o","n","_","T","o","t","a","l","s","_","2","5">>),
                            NamedSheet(<<"1","1","_","2","0","_","2","5">>) >> }}

\* App as it is mounted
LoadInit ==
    /\ data = <<>>
    /\ loading = FALSE
    /\ error = JNull
    /\ tablesByDate = <<>>
    /\ selectedDate = <<>>
    /\ excelSheets = <<>>
    /\ selectedSheet = <<>>
    /\ initPc = "mount"
    /\ csvPath = 0
    /\ reader = Idle
    /\ papa = Idle
    /\ uploads = 0
    /\ excelLoaded = "pending"
    /\ csvStarted = FALSE
    /\ parsedTexts = {}
    /\ lastLoad = "none"
    /\ ParserIdle
    /\ AnalyticsIdle

LoadNext ==
    \/ \E response \in TrackerResponses : LoadExcelJson(response)
    \/ LoadDefaultCSV
    \/ \E response \in CsvResponses : FetchCsv(response)
    \/ \E file \in UploadFiles : HandleFileUpload(file)
    \/ ReaderOnLoad
    \/ ReaderOnError
    \/ PapaComplete
    \/ PapaError
(***************************************************************************)
(* Properties of the hunt records                                          *)
(***************************************************************************)
\* the trimmed member cell of a row: the cell under the first header that
\* contains 'member', empty when the sheet has no such column or the row no
\* such cell
MemberCell(sheet, row) ==
    LET at == {k \in 1..Len(sheet.headers) :
                  includes(toLowerCase(sheet.headers[k]), <<"m","e","m","b","e","r">>)}
    IN  IF at = {} THEN <<>>
        ELSE IF ~HasKey(row, sheet.headers[Min(at)]) THEN <<>>
        ELSE IF ~Truthy(Get(row, sheet.headers[Min(at)])) THEN <<>>
        ELSE trim(ToStr(Get(row, sheet.headers[Min(at)])))

\* the member is empty, the word 'member' or holds 'total', in any case
HeaderOrTotal(member) ==
    \/ member = <<>>
    \/ toLowerCase(member) = <<"m","e","m","b","e","r">>
    \/ includes(toLowerCase(member), <<"t","o","t","a","l">>)

\* a view is about to handle the row at rowIdx of the sheet at sheetIdx
AtRow ==
    /\ apc = "rows"
    /\ sheetIdx \in 1..Len(sheets)
    /\ rowIdx \in 1..Len(sheets[sheetIdx].rows)

\* no record and no aggregate of a member is made for such a member
NoneOfHeaderOrTotal ==
    /\ \A k \in 1..Len(allRecords) : ~HeaderOrTotal(allRecords[k].member)
    /\ \A k \in 1..Len(memberStats) : ~HeaderOrTotal(memberStats[k].k)
    /\ \A k \in 1..Len(memberSpeciesStats) : ~HeaderOrTotal(memberSpeciesStats[k].k)
    /\ \A k \in 1..Len(memberRecords) : ~HeaderOrTotal(memberRecords[k].k)
    /\ \A k \in 1..Len(allMembers) : ~HeaderOrTotal(allMembers[k])

\* C7: a row whose trimmed member cell is empty, equals 'member' or contains
\* 'total' (in any case) yields no hunt record and adds to no member, blind,
\* guide, species or date aggregate, in the dashboard and in the member
\* statistics, also on a sheet without a member column.
C7_HeaderAndTotalRowsSkipped ==
    [][/\ (AtRow /\ HeaderOrTotal(MemberCell(sheets[sheetIdx],
                                            sheets[sheetIdx].rows[rowIdx])))
             => UNCHANGED <<dashVars, memberVars>>
       /\ NoneOfHeaderOrTotal'
      ]_vars

\* every record counts a bird or a gun
NoZeroRecord ==
    \A k \in 1..Len(allRecords) :
        \/ allRecords[k].totalDucks + allRecords[k].totalGeese > 0
        \/ allRecords[k].guns # 0

\* the row at rowIdx adds a record exactly when it counts a bird or a gun
RecordIffCounted(f) ==
    /\ (f.totalDucks + f.totalGeese = 0 /\ f.guns = 0) => allRecords' = allRecords
    /\ ~(f.totalDucks + f.totalGeese = 0 /\ f.guns = 0) =>
          /\ Len(allRecords') = Len(allRecords) + 1
          /\ SubSeq(allRecords', 1, Len(allRecords)) = allRecords
          /\ allRecords'[Len(allRecords')].totalDucks = f.totalDucks
          /\ allRecords'[Len(allRecords')].totalGeese = f.totalGeese
          /\ allRecords'[Len(allRecords')].guns = f.guns

\* C8: a row that passes the member skip rule yields a hunt record if and
\* only if it is not the case that totalDucks + totalGeese = 0 and guns = 0;
\* every record of allRecords has totalDucks + totalGeese > 0 or guns # 0.
C8_RecordIffBirdsOrGuns ==
    [][/\ (/\ viewMode = "club-wide"
           /\ AtRow
           /\ ~HeaderOrTotal(MemberCell(sheets[sheetIdx],
                                        sheets[sheetIdx].rows[rowIdx])))
             => RecordIffCounted(rowFields(sheets[sheetIdx],
                                           sheets[sheetIdx].rows[rowIdx]))
       /\ NoZeroRecord'
      ]_vars

\* the first row, with guns and no bird, gave the only record; the second
\* row, of a member and with neither bird nor gun, gave none
C8_Witness ==
    /\ viewMode = "club-wide"
    /\ apc = "rows"
    /\ sheetIdx = 1
    /\ rowIdx = 3
    /\ Len(allRecords) = 1
    /\ allRecords[1].totalDucks + allRecords[1].totalGeese = 0
    /\ allRecords[1].guns # 0
    /\ ~HeaderOrTotal(MemberCell(sheets[1], sheets[1].rows[2]))

\* C9: every hunt record, of the dashboard and of the member statistics, has
\* totalMallards >= 0, whatever the mallard cells hold.
C9_MallardsNonNegative ==
    /\ \A k \in 1..Len(allRecords) : allRecords[k].totalMallards >= 0
    /\ \A j \in 1..Len(memberRecords) :
          \A h \in 1..Len(memberRecords[j].v.hunts) :
              memberRecords[j].v.hunts[h].totalMallards >= 0

\* C10: every hunt record has guns >= 0: a guns cell that holds a negative
\* number never yields a record with negative guns.
C10_GunsNonNegative ==
    /\ \A k \in 1..Len(allRecords) : allRecords[k].guns >= 0
    /\ \A j \in 1..Len(memberRecords) :
          \A h \in 1..Len(memberRecords[j].v.hunts) :
              memberRecords[j].v.hunts[h].guns >= 0


(***************************************************************************)
(* Properties of the species counts                                        *)
(***************************************************************************)
\* the sum of a sequence of integers
RECURSIVE SumSeq(_)
SumSeq(s) ==
    IF s = <<>> THEN 0 ELSE Head(s) + SumSeq(Tail(s))

\* the number the cell of a row under a species column parses to
SpeciesNumber(row, name) ==
    parseFloatOr0(IF HasKey(row, name) /\ Truthy(Get(row, name))
                  THEN Get(row, name) ELSE JStr(<<>>))

IsGeeseCol(name) ==
    includes(toLowerCase(name), <<"g","e","e","s","e">>)

IsDuckCol(name) ==
    ~includes(toLowerCase(name), <<"g","e","e","s","e">>)

\* the record the row gave: its speciesKills are the species columns with a
\* number > 0, its totals the sums over the geese and over the other columns
CountsOfRow(sheet, row, rec) ==
    LET cols == speciesCols(sheet.headers)
        positive == {k \in 1..Len(cols) : SpeciesNumber(row, cols[k]) > 0}
        nums(keep(_)) ==
            [k \in 1..Len(cols) |->
                IF k \in positive /\ keep(cols[k])
                THEN SpeciesNumber(row, cols[k]) ELSE 0]
    IN  /\ {rec.speciesKills[j].k : j \in 1..Len(rec.speciesKills)}
              = {cols[k] : k \in positive}
        /\ \A j \in 1..Len(rec.speciesKills) :
              /\ rec.speciesKills[j].v > 0
              /\ rec.speciesKills[j].v
                    = SpeciesNumber(row, rec.speciesKills[j].k)
        /\ rec.totalGeese = SumSeq(nums(IsGeeseCol))
        /\ rec.totalDucks = SumSeq(nums(IsDuckCol))

\* the sheets of Scenario A and B gave the one record of Scenario A
ScenarioARecord ==
    (sheets = ScenarioSheets /\ viewMode = "club-wide" /\ apc = "done") =>
        /\ Len(allRecords) = 1
        /\ allRecords[1].date = <<"1","1","_","1","9","_","2","5">>
        /\ allRecords[1].member = <<"B","o","b">>
        /\ allRecords[1].totalDucks = 3
        /\ allRecords[1].totalGeese = 0
        /\ allRecords[1].totalMallards = 3

\* C11: the record a row yields has in speciesKills exactly the species
\* columns whose cell parses to a number > 0, totalGeese is the sum of those
\* numbers over the columns whose name contains 'geese' and totalDucks the sum
\* over the other species columns (zero, negative and non-numeric cells add
\* nothing); the sheets of Scenario A yield exactly one record, with
\* totalDucks = 3, totalGeese = 0 and totalMallards = 3.
C11_SpeciesCountsOfRecord ==
    [][/\ (/\ viewMode = "club-wide"
           /\ AtRow
           /\ Len(allRecords') = Len(allRecords) + 1)
             => CountsOfRow(sheets[sheetIdx], sheets[sheetIdx].rows[rowIdx],
                            allRecords'[Len(allRecords')])
       /\ ScenarioARecord'
      ]_vars

\* the sheets of Scenario A and B gave one record: the Geese cell '0' of the
\* row of Bob added nothing, the row of 'Day Total' gave no record
C11_Witness ==
    /\ sheets = ScenarioSheets
    /\ viewMode = "club-wide"
    /\ apc = "done"
    /\ Len(allRecords) = 1
    /\ allRecords[1].totalDucks = 3
    /\ Keys(allRecords[1].speciesKills) = << <<"D","r","a","k","e"," ","M","a","l","l","a","r","d">>, <<"H","e","n"," ","M","a","l","l","a","r","d">> >>

(***************************************************************************)
(* Properties of the aggregates                                            *)
(***************************************************************************)
\* the records the filter keeps: all of them for 'all', else the ones of the
\* condition selected
Contributing(records, condition) ==
    LET keep == {k \in 1..Len(records) :
                    condition = <<"a","l","l">> \/ records[k].condition = condition}
        nth(p) == CHOOSE k \in keep : Cardinality({j \in keep : j < k}) = p - 1
    IN  [p \in 1..Cardinality(keep) |-> records[nth(p)]]

DucksOfMember(records, name) ==
    SumSeq([k \in 1..Len(records) |->
               IF records[k].member = name THEN records[k].totalDucks ELSE 0])

GeeseOfMember(records, name) ==
    SumSeq([k \in 1..Len(records) |->
               IF records[k].member = name THEN records[k].totalGeese ELSE 0])

\* every member entry holds the sums over the records of its member
MemberSumLaw(entries, records) ==
    \A k \in 1..Len(entries) :
        /\ entries[k].ducks = DucksOfMember(records, entries[k].name)
        /\ entries[k].geese = GeeseOfMember(records, entries[k].name)
        /\ entries[k].total = entries[k].ducks + entries[k].geese

\* C12: in the unfiltered and in the condition-filtered analytics every member
\* entry has ducks equal to the sum of totalDucks and geese equal to the sum
\* of totalGeese over the contributing records of that member, and
\* total = ducks + geese.
C12_MemberSumLaw ==
    /\ ~analytics.isNull =>
          /\ MemberSumLaw(analytics.allMembers, analytics.allRecords)
          /\ MemberSumLaw(analytics.topMembers, analytics.allRecords)
    /\ ~filteredAnalytics.isNull =>
          /\ MemberSumLaw(filteredAnalytics.allMembers,
                          Contributing(analytics.allRecords, selectedCondition))
          /\ MemberSumLaw(filteredAnalytics.topMembers,
                          Contributing(analytics.allRecords, selectedCondition))

\* with the filter 'Sunny' the entry of Bob sums his two records of that
\* condition; the unfiltered entry of a member holds a record more
C12_Witness ==
    /\ selectedCondition = <<"S","u","n","n","y">>
    /\ ~filteredAnalytics.isNull
    /\ \E k \in 1..Len(filteredAnalytics.allMembers) :
          /\ filteredAnalytics.allMembers[k].name = <<"B","o","b">>
          /\ filteredAnalytics.allMembers[k].geese = 6
          /\ filteredAnalytics.allMembers[k].hunts = 2

\* the number of the records whose member, blind or guide is the name
RecordsOfMember(records, name) ==
    Cardinality({k \in 1..Len(records) : records[k].member = name})

RecordsOfBlind(records, name) ==
    Cardinality({k \in 1..Len(records) : records[k].blind = name})

RecordsOfGuide(records, name) ==
    Cardinality({k \in 1..Len(records) : records[k].guide = name})

\* hunts of every entry is the number of its records, and that is not zero
HuntsCounted(an, records) ==
    /\ \A k \in 1..Len(an.allMembers) :
          /\ an.allMembers[k].hunts = RecordsOfMember(records, an.allMembers[k].name)
          /\ RecordsOfMember(records, an.allMembers[k].name) >= 1
    /\ \A k \in 1..Len(an.topBlinds) :
          /\ an.topBlinds[k].hunts = RecordsOfBlind(records, an.topBlinds[k].name)
          /\ RecordsOfBlind(records, an.topBlinds[k].name) >= 1
    /\ \A k \in 1..Len(an.topGuides) :
          /\ an.topGuides[k].hunts = RecordsOfGuide(records, an.topGuides[k].name)
          /\ RecordsOfGuide(records, an.topGuides[k].name) >= 1

\* C13: hunts of every member, blind and guide entry is the number of the
\* contributing records whose member, blind or guide is the name of the entry
\* (a count of records, not of dates), and that number is at least 1, so the
\* guard '|| 1' never supplies the value.
C13_HuntsCountRecords ==
    /\ ~analytics.isNull => HuntsCounted(analytics, analytics.allRecords)
    /\ ~filteredAnalytics.isNull =>
          HuntsCounted(filteredAnalytics,
                       Contributing(analytics.allRecords, selectedCondition))

\* Bob has two records of one date: his entry has hunts = 2; the blind and
\* the guide of one of them have an entry with hunts = 1
C13_Witness ==
    /\ ~analytics.isNull
    /\ \E k \in 1..Len(analytics.allMembers) :
          /\ analytics.allMembers[k].name = <<"B","o","b">>
          /\ analytics.allMembers[k].hunts = 2
          /\ Cardinality({analytics.allRecords[j].date :
                             j \in 1..Len(analytics.allRecords)}) = 1
    /\ \E k \in 1..Len(analytics.topBlinds) : analytics.topBlinds[k].hunts = 1
    /\ \E k \in 1..Len(analytics.topGuides) : analytics.topGuides[k].hunts = 1

\* no entry of the list is named '' or 'Unknown'
NoneUnknown(entries) ==
    \A k \in 1..Len(entries) :
        entries[k].name # <<>> /\ entries[k].name # <<"U","n","k","n","o","w","n">>

\* a record counts for its blind only if the blind is known
KnownOnly(an, records) ==
    /\ NoneUnknown(an.topBlinds)
    /\ NoneUnknown(an.topBlindsAvg)
    /\ NoneUnknown(an.topGuides)
    /\ NoneUnknown(an.topGuidesAvg)
    /\ MemberSumLaw(an.allMembers, records)
    /\ SumSeq([k \in 1..Len(an.topSpecies) |-> an.topSpecies[k].total])
          = SumSeq([k \in 1..Len(records) |->
                       SumSeq([j \in 1..Len(records[k].speciesKills) |->
                                  records[k].speciesKills[j].v])])

\* C14: no blind and no guide aggregate entry is named '' or 'Unknown' (a
\* record counts for a blind or a guide only if that blind or guide is
\* non-empty and not the literal 'Unknown'), while every record counts for
\* its member entry and for the species totals.
C14_NoUnknownBlindOrGuide ==
    /\ NoneUnknown([k \in 1..Len(blindStats) |-> [name |-> blindStats[k].k]])
    /\ NoneUnknown([k \in 1..Len(guideStats) |-> [name |-> guideStats[k].k]])
    /\ ~analytics.isNull => KnownOnly(analytics, analytics.allRecords)
    /\ ~filteredAnalytics.isNull =>
          KnownOnly(filteredAnalytics,
                    Contributing(analytics.allRecords, selectedCondition))

(***************************************************************************)
(* Properties of dateTrends                                                *)
(***************************************************************************)
\* the names of the sheets
SheetNames ==
    {sheets[k].name : k \in 1..Len(sheets)}

\* C15: dateTrends has exactly one entry per distinct sheet name, the sheets
\* without a valid record and the sheets named '' or 'Unknown' included, with
\* and without a condition filter.
C15_OneTrendPerSheetName ==
    /\ ~analytics.isNull =>
          Len(analytics.dateTrends) = Cardinality(SheetNames)
    /\ ~filteredAnalytics.isNull =>
          Len(filteredAnalytics.dateTrends) = Cardinality(SheetNames)

\* the sum of a field over the records of a date
DucksOfDate(records, date) ==
    SumSeq([k \in 1..Len(records) |->
               IF records[k].date = date THEN records[k].totalDucks ELSE 0])

GeeseOfDate(records, date) ==
    SumSeq([k \in 1..Len(records) |->
               IF records[k].date = date THEN records[k].totalGeese ELSE 0])

MallardsOfDate(records, date) ==
    SumSeq([k \in 1..Len(records) |->
               IF records[k].date = date THEN records[k].totalMallards ELSE 0])

\* an entry is 'DNH', and all zero, exactly when no record has its date; an
\* entry with records is 'hunted' and holds their sums
TrendStatus(trends, records) ==
    \A k \in 1..Len(trends) :
        LET e == trends[k]
            none == \A j \in 1..Len(records) : records[j].date # e.date
        IN  /\ e.status \in {"DNH", "hunted"}
            /\ e.status = "DNH" <=> none
            /\ e.status = "DNH" =>
                  /\ e.ducks = 0 /\ e.geese = 0 /\ e.mallards = 0
                  /\ e.total = 0 /\ e.blindCount = 0
            /\ ~none =>
                  /\ e.status = "hunted"
                  /\ e.ducks = DucksOfDate(records, e.date)
                  /\ e.geese = GeeseOfDate(records, e.date)
                  /\ e.mallards = MallardsOfDate(records, e.date)

\* the sheet of Scenario B, with 'Day Total' as its only member, gave no
\* record and has a 'DNH' entry
ScenarioBTrend ==
    (sheets = ScenarioSheets /\ ~analytics.isNull) =>
        /\ \A j \in 1..Len(analytics.allRecords) :
              analytics.allRecords[j].date # <<"1","1","_","2","0","_","2","5">>
        /\ \E k \in 1..Len(analytics.dateTrends) :
              /\ analytics.dateTrends[k].date = <<"1","1","_","2","0","_","2","5">>
              /\ analytics.dateTrends[k].status = "DNH"

DateKey(dateStr) ==
    IF parseDate(dateStr).nan THEN 0 ELSE parseDate(dateStr).n

\* the entries are in ascending order of the keys of their dates
SortedByDateKey(trends) ==
    \A j, k \in 1..Len(trends) :
        j < k => DateKey(trends[j].date) <= DateKey(trends[k].date)

\* C17: dateTrends is sorted ascending by the parsed date key, where a name
\* that cannot be parsed has the key of the epoch and so comes before every
\* real date, for any mix of names.
C17_TrendsSortedByDateKey ==
    /\ ~analytics.isNull => SortedByDateKey(analytics.dateTrends)
    /\ ~filteredAnalytics.isNull => SortedByDateKey(filteredAnalytics.dateTrends)

(***************************************************************************)
(* Properties of the condition filter                                      *)
(***************************************************************************)
RatioEq(x, y) ==
    x.n * y.d = y.n * x.d

\* the two summaries hold the same numbers
SameSummary(s, t) ==
    /\ s.totalHunts = t.totalHunts
    /\ s.totalDucks = t.totalDucks
    /\ s.totalGeese = t.totalGeese
    /\ s.totalMallards = t.totalMallards
    /\ s.uniqueBlinds = t.uniqueBlinds
    /\ RatioEq(s.avgDucksPerMember, t.avgDucksPerMember)
    /\ RatioEq(s.avgGeesePerMember, t.avgGeesePerMember)
    /\ RatioEq(s.totalDucksPerHunt, t.totalDucksPerHunt)
    /\ RatioEq(s.totalGeesePerHunt, t.totalGeesePerHunt)

\* the two analytics hold the same entries and the same summary (the entries
\* of dateTrends are compared without their order)
SameAnalytics(a, b) ==
    /\ a.allMembers = b.allMembers
    /\ a.topMembers = b.topMembers
    /\ a.topMembersAvg = b.topMembersAvg
    /\ a.topBlinds = b.topBlinds
    /\ a.topBlindsAvg = b.topBlindsAvg
    /\ a.topGuides = b.topGuides
    /\ a.topGuidesAvg = b.topGuidesAvg
    /\ a.topSpecies = b.topSpecies
    /\ Range(a.dateTrends) = Range(b.dateTrends)
    /\ SameSummary(a.stats, b.stats)

\* every record has the condition selected
OneCondition ==
    /\ selectedCondition # <<"a","l","l">>
    /\ ~analytics.isNull
    /\ Len(analytics.allRecords) >= 1
    /\ \A k \in 1..Len(analytics.allRecords) :
          analytics.allRecords[k].condition = selectedCondition

\* C18: for sheets whose records all carry one condition c, the analytics
\* computed with the filter c (member, blind, guide and species entries,
\* dateTrends and the summary with totalHunts and the averages per hunt) are
\* equal to the analytics computed without a filter.
C18_FilteredEqualsUnfiltered ==
    OneCondition =>
        /\ ~filteredAnalytics.isNull
        /\ SameAnalytics(filteredAnalytics, analytics)

\* what is shown has no member, blind, guide or species entry, and a 'DNH'
\* entry for every date of the sheets
ShowsNoHunt(shown) ==
    /\ shown.allMembers = <<>>
    /\ shown.topMembers = <<>>
    /\ shown.topMembersAvg = <<>>
    /\ shown.topBlinds = <<>>
    /\ shown.topBlindsAvg = <<>>
    /\ shown.topGuides = <<>>
    /\ shown.topGuidesAvg = <<>>
    /\ shown.topSpecies = <<>>
    /\ {shown.dateTrends[k].date : k \in 1..Len(shown.dateTrends)}
          = {analytics.dateTrends[k].date : k \in 1..Len(analytics.dateTrends)}
    /\ \A k \in 1..Len(shown.dateTrends) : shown.dateTrends[k].status = "DNH"

AverageOf(records, chosen) ==
    Ratio(SumSeq([k \in 1..Len(records) |->
                     IF k \in chosen
                     THEN records[k].totalDucks + records[k].totalGeese
                     ELSE 0]),
          Cardinality(chosen))

\* the names the records give to a field, the empty one left out
NamesOf(records, Field(_)) ==
    {Field(records[k]) : k \in 1..Len(records)} \ {<<>>}

\* ranked is the n entries of highest average among the entries of all the
\* names: it is sorted by average, it has n entries when there are as many
\* names, and no name left out has a higher average than an entry of it
RankedByAverage(ranked, n, records, Field(_)) ==
    /\ \A j, k \in 1..Len(ranked) :
          j < k => ~RatioLess(ranked[j].average, ranked[k].average)
    /\ Len(ranked) = Min({n, Cardinality(NamesOf(records, Field))})
    /\ \A name \in NamesOf(records, Field) :
          \/ \E k \in 1..Len(ranked) : ranked[k].name = name
          \/ \A k \in 1..Len(ranked) :
                ~RatioLess(ranked[k].average,
                           AverageOf(records, {j \in 1..Len(records) :
                                                  Field(records[j]) = name}))

MemberField(r) ==
    r.member

GuideField(r) ==
    r.guide

\* C20: the ranking by average does not depend on the ranking by total:
\* topMembersAvg is the 10 member entries of highest average among all the
\* member entries and topGuidesAvg the 5 guide entries of highest average
\* among all the guide entries.
C20_AverageRankingOverAll ==
    ~analytics.isNull =>
        /\ RankedByAverage(analytics.topMembersAvg, 10, analytics.allRecords,
                           MemberField)
        /\ RankedByAverage(analytics.topGuidesAvg, 5, analytics.allRecords,
                           GuideField)

(***************************************************************************)
(* C21: ties in the ranked views                                           *)
(***************************************************************************)
BlindField(r) ==
    r.blind

\* the index of the first record that has the name in the field
FirstSeen(records, Field(_), name) ==
    CHOOSE k \in 1..Len(records) :
        /\ Field(records[k]) = name
        /\ \A j \in 1..(k - 1) : Field(records[j]) # name

\* the first place a species is counted at: the first record that has it,
\* and its place among the species of that record
SpeciesSeen(records, name) ==
    LET k == CHOOSE k \in 1..Len(records) :
                /\ HasKey(records[k].speciesKills, name)
                /\ \A j \in 1..(k - 1) : ~HasKey(records[j].speciesKills, name)
        ks == Keys(records[k].speciesKills)
    IN  <<k, CHOOSE p \in 1..Len(ks) : ks[p] = name>>

\* entries of ranked with the same total stand in the order their names were
\* first seen in the records
TotalTiesFirstSeen(ranked, records, Field(_)) ==
    \A j, k \in 1..Len(ranked) :
        (j < k /\ ranked[j].total = ranked[k].total)
            => FirstSeen(records, Field, ranked[j].name)
                  < FirstSeen(records, Field, ranked[k].name)

AverageTiesFirstSeen(ranked, records, Field(_)) ==
    \A j, k \in 1..Len(ranked) :
        (j < k /\ RatioEq(ranked[j].average, ranked[k].average))
            => FirstSeen(records, Field, ranked[j].name)
                  < FirstSeen(records, Field, ranked[k].name)

SpeciesTiesFirstSeen(ranked, records) ==
    \A j, k \in 1..Len(ranked) :
        (j < k /\ ranked[j].total = ranked[k].total)
            => LET a == SpeciesSeen(records, ranked[j].name)
                   b == SpeciesSeen(records, ranked[k].name)
               IN  a[1] < b[1] \/ (a[1] = b[1] /\ a[2] < b[2])

\* C21: in every ranked view (members, blinds, guides, species; by total and
\* by average) two entries with the same sort value stand in the order in
\* which their keys were first seen in the records, blind names such as '10'
\* and '2' included.
C21_TiesFirstSeen ==
    ~analytics.isNull =>
        /\ TotalTiesFirstSeen(analytics.allMembers, analytics.allRecords, MemberField)
        /\ AverageTiesFirstSeen(analytics.topMembersAvg, analytics.allRecords,
                                MemberField)
        /\ TotalTiesFirstSeen(analytics.topBlinds, analytics.allRecords, BlindField)
        /\ AverageTiesFirstSeen(analytics.topBlindsAvg, analytics.allRecords,
                                BlindField)
        /\ TotalTiesFirstSeen(analytics.topGuides, analytics.allRecords, GuideField)
        /\ AverageTiesFirstSeen(analytics.topGuidesAvg, analytics.allRecords,
                                GuideField)
        /\ SpeciesTiesFirstSeen(analytics.topSpecies, analytics.allRecords)

(***************************************************************************)
(* C25: the condition of the records of a sheet                            *)
(***************************************************************************)
\* the text of a cell of a row, trimmed; empty when the row has no such cell
\* or the cell is null
TrimmedCell(row, header) ==
    IF ~HasKey(row, header) THEN <<>>
    ELSE IF Get(row, header).t \in {"null", "undefined"} THEN <<>>
    ELSE trim(ToStr(Get(row, header)))

\* YYYY-MM-DD at the start of a text
DateLike(s) ==
    /\ Len(s) >= 10
    /\ \A k \in 1..10 : IF k \in {5, 8} THEN s[k] = "-" ELSE s[k] \in Digits

\* the rows of the sheet labelled 'condition' or 'conditions' in the column
\* named 'Date'
ConditionRowsOf(sheet, label) ==
    {k \in 1..Len(sheet.rows) :
        toLowerCase(TrimmedCell(sheet.rows[k], label))
            \in {<<"c","o","n","d","i","t","i","o","n">>, <<"c","o","n","d","i","t","i","o","n","s">>}}

\* the condition the claim gives a sheet, for its column named 'Date' and
\* its first column named by a date
ConditionAt(sheet, label, value) ==
    IF ConditionRowsOf(sheet, label) = {} THEN <<"U","n","k","n","o","w","n">>
    ELSE LET first == CHOOSE k \in ConditionRowsOf(sheet, label) :
                         \A j \in ConditionRowsOf(sheet, label) : k <= j
             cell == TrimmedCell(sheet.rows[first], value)
         IN  IF cell = <<>> \/ DateLike(cell) THEN <<"U","n","k","n","o","w","n">> ELSE cell

ConditionOfSheet(sheet) ==
    LET labels == {k \in 1..Len(sheet.headers) :
                      toLowerCase(sheet.headers[k]) = <<"d","a","t","e">>}
        values == {k \in 1..Len(sheet.headers) : DateLike(sheet.headers[k])}
    IN  IF labels = {} \/ values = {} THEN <<"U","n","k","n","o","w","n">>
        ELSE ConditionAt(sheet,
                         sheet.headers[CHOOSE k \in labels : \A j \in labels : k <= j],
                         sheet.headers[CHOOSE k \in values : \A j \in values : k <= j])

\* C25: all the records extracted from one sheet carry the same condition:
\* the trimmed cell of the column named by a date (YYYY-MM-DD...) on the first
\* row whose 'Date' cell is 'condition' or 'conditions' in any case, when
\* that cell is not empty and does not start with a date, otherwise
\* 'Unknown'; the condition does not vary by row within a sheet.
C25_OneConditionPerSheet ==
    [][(/\ viewMode = "club-wide"
        /\ AtRow
        /\ Len(allRecords') = Len(allRecords) + 1)
          => allRecords'[Len(allRecords')].condition
                = ConditionOfSheet(sheets[sheetIdx])
      ]_vars

\* the record of the row of Bob, which stands above the two condition rows of
\* its sheet, has the trimmed condition of the first of them; the record of
\* the sheet whose condition cell holds a date has 'Unknown'
C25_Witness ==
    /\ viewMode = "club-wide"
    /\ apc = "done"
    /\ Len(sheets) = 2
    /\ Len(allRecords) = 2
    /\ sheets[1].name = <<"1","1","_","2","7","_","2","5">>
    /\ allRecords[1].condition = <<"F","o","g","g","y">>
    /\ allRecords[2].condition = <<"U","n","k","n","o","w","n">>

(***************************************************************************)
(* C27: the totals of the summary and of the date series                   *)
(***************************************************************************)
\* C27: in the unfiltered analytics the ducks of all the dateTrends entries
\* add up to stats.totalDucks and the geese to stats.totalGeese, and both are
\* the sums over all the records: every record counted in the totals is
\* counted under one date of the series.
C27_TrendsAddUpToTotals ==
    ~analytics.isNull =>
        /\ SumSeq([k \in 1..Len(analytics.dateTrends) |-> analytics.dateTrends[k].ducks])
              = analytics.stats.totalDucks
        /\ SumSeq([k \in 1..Len(analytics.dateTrends) |-> analytics.dateTrends[k].geese])
              = analytics.stats.totalGeese
        /\ SumSeq([k \in 1..Len(analytics.allRecords) |->
                      analytics.allRecords[k].totalDucks])
              = analytics.stats.totalDucks
        /\ SumSeq([k \in 1..Len(analytics.allRecords) |->
                      analytics.allRecords[k].totalGeese])
              = analytics.stats.totalGeese

(***************************************************************************)
(* C28: the individual view and the club-wide dashboard                    *)
(***************************************************************************)
IsRecordRow(f) ==
    ~f.skipped /\ ~f.empty

\* the records analytics extracts from a sheet, and from a list of sheets
SheetRecords(sheet) ==
    LET kept == SelectSeq([k \in 1..Len(sheet.rows) |->
                              rowFields(sheet, sheet.rows[k])],
                          IsRecordRow)
    IN  [k \in 1..Len(kept) |-> recordOf(sheet, kept[k])]

RECURSIVE DashboardRecords(_)
DashboardRecords(shs) ==
    IF shs = <<>> THEN <<>>
    ELSE SheetRecords(Head(shs)) \o DashboardRecords(Tail(shs))

\* the members IndividualMemberStats lists are the members of the records,
\* with the ducks, the geese and the number of the records of each
MembersAgree(listed, records) ==
    /\ {listed[k].k : k \in 1..Len(listed)} =
          {records[k].member : k \in 1..Len(records)}
    /\ \A k \in 1..Len(listed) :
          /\ listed[k].v.totalDucks = DucksOfMember(records, listed[k].k)
          /\ listed[k].v.totalGeese = GeeseOfMember(records, listed[k].k)
          /\ listed[k].v.totalHunts = RecordsOfMember(records, listed[k].k)
          /\ listed[k].v.totalHunts # 0

\* C28: on the same sheets the members IndividualMemberStats lists are the
\* members that have an entry in the unfiltered dashboard (whose entries are
\* those of the members of its records), with totalDucks, totalGeese and
\* totalHunts equal to the ducks, geese and hunts of that entry; no member
\* is listed in the individual view with totalHunts = 0.
C28_ViewsAgree ==
    /\ (viewMode = "club-wide" /\ apc = "done") =>
          /\ allRecords = DashboardRecords(sheets)
          /\ {analytics.allMembers[k].name : k \in 1..Len(analytics.allMembers)}
                = {allRecords[k].member : k \in 1..Len(allRecords)}
    /\ (viewMode = "individual" /\ apc = "done") =>
          MembersAgree(memberRecords, DashboardRecords(sheets))

(***************************************************************************)
(* C29: the date series of a member                                        *)
(***************************************************************************)
\* the hunt records of the member on the date
HuntsOn(member, date) ==
    {k \in 1..Len(member.hunts) : member.hunts[k].date = date}

\* C29: in the date series of every member of IndividualMemberStats an entry
\* with status 'DNH' has ducks = geese = mallards = total = 0, and an entry
\* has status 'hunted' exactly when the member has at least one hunt record
\* on that date.
C29_MemberDnhIffNoHunt ==
    \A m \in 1..Len(membersArray) :
        \A k \in 1..Len(membersArray[m].dateArray) :
            LET e == membersArray[m].dateArray[k]
            IN  /\ e.status = "DNH" =>
                      (e.ducks = 0 /\ e.geese = 0 /\ e.mallards = 0 /\ e.total = 0)
                /\ e.status = "hunted" <=> HuntsOn(membersArray[m], e.date) # {}
(***************************************************************************)
(* C22: the rows of a CSV load                                             *)
(***************************************************************************)
\* the text of a row begins with the literal 'ERROR:'
IsErrorRow(row) ==
    /\ Get(row, <<"t","e","x","t">>).t = "str"
    /\ Len(Get(row, <<"t","e","x","t">>).s) >= 6
    /\ SubSeq(Get(row, <<"t","e","x","t">>).s, 1, 6) = <<"E","R","R","O","R",":">>

\* the key the claim gives a row: the date of the parsed metadata, else the
\* filename, else 'Unknown'
GroupKeyOf(row) ==
    LET date == metadataDate(ToStr(textOf(row)))
        filename == Get(row, <<"f","i","l","e","n","a","m","e">>)
    IN  IF Truthy(date) THEN ToStr(date)
        ELSE IF Truthy(filename) THEN ToStr(filename)
        ELSE <<"U","n","k","n","o","w","n">>

\* the groups of tablesByDate that hold the row
GroupsOf(row) ==
    {g \in 1..Len(tablesByDate) :
        \E k \in 1..Len(tablesByDate[g].v) : tablesByDate[g].v[k] = row}

\* C22: after a CSV load no row whose text begins with 'ERROR:' is in data, in
\* a group of tablesByDate or among the texts parseOCRToTable was given, and
\* every row of data is in exactly one group of tablesByDate, the group of
\* its metadata date, else of its filename, else 'Unknown'.
C22_LoadedRowsGrouped ==
    lastLoad # "none" =>
        /\ \A k \in 1..Len(data) : ~IsErrorRow(data[k])
        /\ \A g \in 1..Len(tablesByDate) :
               \A k \in 1..Len(tablesByDate[g].v) : ~IsErrorRow(tablesByDate[g].v[k])
        /\ \A text \in parsedTexts : ~startsWith(text, <<"E","R","R","O","R",":">>)
        /\ \A k \in 1..Len(data) :
               /\ Cardinality(GroupsOf(data[k])) = 1
               /\ \A g \in GroupsOf(data[k]) : tablesByDate[g].k = GroupKeyOf(data[k])

(***************************************************************************)
(* C23: the CSV fallback of init                                           *)
(***************************************************************************)
\* the answers the claim counts as no Excel data
NoExcelData(response) ==
    \/ response.status # "ok"
    \/ response.json # "sheets"
    \/ response.sheets = <<>>
    \/ \A k \in 1..Len(response.sheets) :
           LET lower == toLowerCase(response.sheets[k].name)
           IN  \/ includes(lower, <<"s","h","e","e","t","3">>)
               \/ includes(lower, <<"t","e","m","p","l","a","t","e">>)
               \/ includes(lower, <<"t","o","d","o">>)

\* no sheet of excelSheets has a later date than the sheet of that name
MostRecent(name) ==
    \A k \in 1..Len(excelSheets) :
        (~appParseDate(excelSheets[k].name).nan /\ ~appParseDate(name).nan)
            => appParseDate(excelSheets[k].name).n <= appParseDate(name).n

SheetJsonLoaded ==
    /\ ~csvStarted
    /\ initPc = "done"
    /\ excelSheets # <<>>
    /\ \E k \in 1..Len(excelSheets) : excelSheets[k].name = selectedSheet
    /\ MostRecent(selectedSheet)

\* C23: on startup loadDefaultCSV is called iff loadExcelJson reports no Excel
\* data, which it does exactly for a fetch that fails or is not ok and for
\* sheets missing, not an array, empty or all template/TODO, and only after
\* loadExcelJson has finished; when the sheet JSON loads, the CSV load is never
\* started, excelSheets is not empty and selectedSheet names its most recent
\* sheet.
C23_CsvFallbackIffNoExcel ==
    /\ [](csvStarted => excelLoaded = "no")
    /\ []((excelLoaded = "no" /\ initPc \in {"csv", "done"}) => csvStarted)
    /\ [](excelLoaded = "yes" => SheetJsonLoaded)
    /\ [][\A response \in TrackerResponses :
             LoadExcelJson(response) =>
                 (IF NoExcelData(response) THEN excelLoaded' = "no"
                                           ELSE excelLoaded' = "yes")]_vars

(***************************************************************************)
(* C30: the end of a CSV load                                              *)
(***************************************************************************)
\* C30: every parseCSV that was started ends with loading = false, whichever
\* way it ends (rejection of HTML/XML, complete with or without rows, error,
\* and a file that cannot be read), and after a completed load a selectedDate
\* that is not empty is a key of tablesByDate.
C30_LoadTerminates ==
    /\ (lastLoad = "parsing" ~> ~loading)
    /\ [](lastLoad \in {"rejected", "complete", "error", "readError"} => ~loading)
    /\ []((lastLoad = "complete" /\ selectedDate # <<>>)
              => HasKey(tablesByDate, selectedDate))
(***************************************************************************)
(* Specifications                                                          *)
(***************************************************************************)
ParserSpec ==
    ParserInit /\ [][ParserNext]_vars

AnalyticsSpec ==
    AnalyticsInit /\ [][AnalyticsNext]_vars

LoadSpec ==
    LoadInit /\ [][LoadNext]_vars

\* a call that is pending is answered: Papa.parse of a string calls complete
\* or error before it returns, and the FileReader calls onload or onerror
PapaAnswers ==
    papa.busy /\ papa' = Idle

ReaderAnswers ==
    reader.busy /\ reader' = Idle

LoadFairSpec ==
    /\ LoadSpec
    /\ WF_papa(PapaAnswers)
    /\ WF_reader(ReaderAnswers)

====
